---- MODULE Spec2Model ----
(***************************************************************************)
(* A model of the devbox updater action: the error classifier, the retry   *)
(* engine, the registry client's update check, the file mutator and the    *)
(* orchestrator with the forge it reconciles pull requests against.        *)
(*                                                                         *)
(* Strings whose characters the code inspects (package specs, versions,    *)
(* branch names) are sequences of one-character strings.  An error message *)
(* is the set of the classifier's keywords that occur in it.               *)
(***************************************************************************)
EXTENDS Integers, Sequences, FiniteSets, TLC

VARIABLES
    instMaxRetries,   \* RetryMechanism.config.maxRetries
    customConfig,     \* the customConfig argument of executeWithRetry
    op,               \* the operation handed to executeWithRetry
    rtPc,             \* position in executeWithRetry
    attempt,          \* the loop variable of executeWithRetry
    invocations,      \* how often operation() was called
    sleeps,           \* how often sleep() was awaited
    rtResult,         \* what executeWithRetry returned or threw
    pkg,              \* the ParsedPackage handed to checkForUpdates
    updateLatest,     \* VersionQueryService.updateLatest
    registry,         \* how the registry behaves for the request
    requests,         \* how often the registry was requested
    ckLookup,         \* what getLatestVersion settled with
    ckResult,         \* what checkForUpdates settled with
    ckPc,             \* position of the checkForUpdates call
    manifest,         \* devbox.json in the workspace
    backupFile,       \* the backup createBackup made
    lockFile,         \* devbox.lock in the workspace
    vcsHead,          \* what the local repository's HEAD holds
    vcsLog,           \* the commits made on top of the checkout
    fmPc,             \* position in applyUpdates
    fmUpdates,        \* the candidates applyUpdates was handed
    fmConfig,         \* currentConfig / updatedConfig of applyUpdates
    fmCaught,         \* the error the catch of applyUpdates caught
    fmResult,         \* what applyUpdates returned or threw
    fmTrace,          \* the operations applyUpdates performed, in order
    fmPre,            \* manifest and lock when applyUpdates was called
    runs,             \* how many runs of the action have started
    runPc,            \* position in run
    config,           \* the ActionConfig of the run
    lookups,          \* what the registry answered per manifest entry
    summary,          \* updateSummary
    existingPR,       \* what checkExistingPR returned
    outputs,          \* the outputs object of run
    emitted,          \* what setActionOutputs emitted
    setFailedCalls,   \* how often core.setFailed was called in the run
    scanInvocations,  \* how often generateUpdateSummary was invoked
    scanAttempt,      \* the attempt counter of the scan's retry loop
    branchName,       \* what getOrCreateUpdateBranch returned
    forgeCalls,       \* the PullRequestManager calls of the run, in order
    runError,         \* the error the catch of run caught
    prs,              \* the forge's pull requests, by number
    clock,            \* the forge's clock
    branches,         \* the forge's branches
    defaultBranch,    \* the name of the repository's default branch
    repoManifest,     \* devbox.json on the default branch
    repoLock,         \* devbox.lock on the default branch
    lkPackages,       \* the packages handed to checkMultiplePackagesForUpdates
    lkRegistry,       \* how the registry behaves for each package's requests
    lkAttempt,        \* per lookup, the loop variable of its executeWithRetry
    lkRequests,       \* per lookup, how often the registry was requested
    lkSleeps,         \* per lookup, how often sleep() was awaited
    lkPc,             \* per lookup, its position
    lkLookup,         \* per lookup, what getLatestVersion settled with
    lkOrder,          \* the lookups in the order they completed
    lkReturned,       \* what checkMultiplePackagesForUpdates returned
    lkMaxRetries,     \* the max-retries input of the run that scans
    thrown,           \* the value handed to handleError
    errorInfo,        \* the ErrorInfo handleError returned
    callArgs,         \* the arguments of a call of one of the pure functions
    callResult        \* what that call returned or threw

retryVars == <<instMaxRetries, customConfig, op, rtPc, attempt, invocations,
               sleeps, rtResult>>

checkVars == <<pkg, updateLatest, registry, requests, ckLookup, ckResult, ckPc>>

fmVars == <<manifest, backupFile, lockFile, vcsHead, vcsLog, fmPc, fmUpdates,
            fmConfig, fmCaught, fmResult, fmTrace, fmPre>>

runVars == <<runs, runPc, config, lookups, summary, existingPR, outputs, emitted,
             setFailedCalls, scanInvocations, scanAttempt, branchName,
             forgeCalls, runError, prs, clock>>

forgeVars == <<branches, defaultBranch, repoManifest, repoLock>>

lookupVars == <<lkPackages, lkRegistry, lkAttempt, lkRequests, lkSleeps, lkPc,
                lkLookup, lkOrder, lkReturned, lkMaxRetries>>

classVars == <<thrown, errorInfo>>

callVars == <<callArgs, callResult>>

vars == <<retryVars, checkVars, fmVars, runVars, forgeVars, lookupVars,
          classVars, callVars>>

notRetryVars == <<checkVars, fmVars, runVars, forgeVars, lookupVars, classVars, callVars>>
notCheckVars == <<retryVars, fmVars, runVars, forgeVars, lookupVars, classVars, callVars>>
notFmVars == <<retryVars, checkVars, runVars, forgeVars, lookupVars, classVars, callVars>>
notRunVars == <<retryVars, checkVars, lookupVars, classVars, callVars>>
notLookupVars == <<retryVars, checkVars, fmVars, runVars, forgeVars, classVars, callVars>>
notClassVars == <<retryVars, checkVars, fmVars, runVars, forgeVars, lookupVars,
                  callVars>>
notCallVars == <<retryVars, checkVars, fmVars, runVars, forgeVars, lookupVars,
                 classVars>>

-----------------------------------------------------------------------------
(* Bounds of the model *)

\* an operation fails at most this often before its final behaviour sets in
MaxFails == 12
\* a registry request fails at most this often before it settles
MaxLookupFails == 4
\* the action is run at most this often against the repository
MaxRuns == 2
\* how many keywords the message of a classified value holds at most
MaxWords == 2
\* how many updates a list handed to the pull request manager holds at most
MaxUpdates == 2
\* how many characters a manifest entry that is parsed holds at most
MaxSpecLen == 4

\* the pull requests drawn for one call of checkExistingPR
MaxPulls == 2
\* the retries of an executeWithRetry call whose delays are recorded
MaxBackoffRetries == 4

(* Program constants *)

\* validateConfig accepts max-retries up to this value
MaxRetriesLimit == 10
\* DEFAULT_RETRY_CONFIG.maxRetries
DefaultMaxRetries == 3
\* DEVBOX_API.MAX_RETRIES
ApiMaxRetries == 3

NoConfig == [given |-> FALSE, maxRetries |-> 0]
WithMaxRetries(n) == [given |-> TRUE, maxRetries |-> n]
NoValue == [kind |-> "none"]

\* a settled promise: fulfilled with a value, or rejected with an error (the
\* class of the thrown value, the keywords of its message, what created it)
Ok(v) == [kind |-> "ok", value |-> v]
Err(cls, msg, id) == [kind |-> "error", cls |-> cls, msg |-> msg, id |-> id]

-----------------------------------------------------------------------------
(* Strings as sequences of characters *)

Digits == {"0", "1", "2", "3", "4", "5", "6", "7", "8", "9"}
IsDigit(c) == c \in Digits
DigitVal(c) ==
    CASE c = "0" -> 0 [] c = "1" -> 1 [] c = "2" -> 2 [] c = "3" -> 3
      [] c = "4" -> 4 [] c = "5" -> 5 [] c = "6" -> 6 [] c = "7" -> 7
      [] c = "8" -> 8 [] c = "9" -> 9

\* the characters of the model's strings in the order localeCompare sorts
\* them: white space, punctuation, symbols, digits, letters
CollationOrder == <<" ", "-", ".", "@", "/", "+",
                    "0", "1", "2", "3", "4", "5", "6", "7", "8", "9",
                    "a", "b", "c", "d", "e", "f", "g", "h", "i", "j", "k", "l",
                    "m", "n", "o", "p", "q", "r", "s", "t", "u", "v", "w", "x",
                    "y", "z">>
CharRank(c) == CHOOSE i \in 1..Len(CollationOrder) : CollationOrder[i] = c

\* String.prototype.localeCompare on strings over CollationOrder
RECURSIVE localeCompare(_, _)
localeCompare(a, b) ==
    IF a = <<>> /\ b = <<>> THEN 0
    ELSE IF a = <<>> THEN -1
    ELSE IF b = <<>> THEN 1
    ELSE IF CharRank(Head(a)) < CharRank(Head(b)) THEN -1
    ELSE IF CharRank(Head(a)) > CharRank(Head(b)) THEN 1
    ELSE localeCompare(Tail(a), Tail(b))

\* String.prototype.trim
RECURSIVE trim(_)
trim(s) ==
    IF s = <<>> THEN s
    ELSE IF Head(s) = " " THEN trim(Tail(s))
    ELSE IF s[Len(s)] = " " THEN trim(SubSeq(s, 1, Len(s) - 1))
    ELSE s

\* String.prototype.lastIndexOf, 1-based; 0 when c does not occur
lastIndexOf(s, c) ==
    IF \E i \in 1..Len(s) : s[i] = c
    THEN CHOOSE i \in 1..Len(s) : s[i] = c /\ \A j \in (i+1)..Len(s) : s[j] # c
    ELSE 0

\* String.prototype.indexOf from position i on, 1-based; 0 when absent
indexOfFrom(s, c, i) ==
    IF \E k \in i..Len(s) : s[k] = c
    THEN CHOOSE k \in i..Len(s) : s[k] = c /\ \A j \in i..(k-1) : s[j] # c
    ELSE 0

\* parseInt(digits, 10)
RECURSIVE parseInt(_)
parseInt(d) ==
    IF d = <<>> THEN 0
    ELSE parseInt(SubSeq(d, 1, Len(d) - 1)) * 10 + DigitVal(d[Len(d)])

\* the end of the run of digits that starts at i (i-1 when s[i] is no digit)
DigitRunEnd(s, i) ==
    CHOOSE j \in (i-1)..Len(s) :
        /\ \A k \in i..j : IsDigit(s[k])
        /\ (j = Len(s) \/ ~IsDigit(s[j+1]))

\* an optional value: undefined, or a string
Undefined == [defined |-> FALSE, str |-> <<>>]
Str(s) == [defined |-> TRUE, str |-> s]
\* JavaScript truthiness of an optional string
Truthy(v) == v.defined /\ v.str # <<>>

\* a JavaScript number: an integer, or NaN
JsNumber(n) == [nan |-> FALSE, n |-> n]
NaN == [nan |-> TRUE, n |-> 0]
\* a < b on numbers: false when either is NaN
JsLess(a, b) == ~a.nan /\ ~b.nan /\ a.n < b.n
\* a <= b on numbers: false when either is NaN
JsLessEq(a, b) == ~a.nan /\ ~b.nan /\ a.n <= b.n

\* parseInt(s, 10) of an input: an optional sign, then the leading run of
\* digits; NaN when there is no digit
parseIntRadix10(s) ==
    LET signed == s # <<>> /\ Head(s) \in {"-", "+"}
        body == IF signed THEN Tail(s) ELSE s
        e == DigitRunEnd(body, 1)
    IN  IF e = 0 THEN NaN
        ELSE IF signed /\ Head(s) = "-"
             THEN JsNumber(0 - parseInt(SubSeq(body, 1, e)))
        ELSE JsNumber(parseInt(SubSeq(body, 1, e)))

-----------------------------------------------------------------------------
(* Manifest model: parsePackageSpec, createPackageSpec *)

\* split at the last "@" unless it is absent or the first character
parsePackageSpec(packageSpec) ==
    LET atIndex == lastIndexOf(packageSpec, "@")
    IN  IF atIndex = 0 \/ atIndex = 1
        THEN [name |-> packageSpec, version |-> Undefined,
              fullSpec |-> packageSpec]
        ELSE [name |-> SubSeq(packageSpec, 1, atIndex - 1),
              version |-> Str(SubSeq(packageSpec, atIndex + 1, Len(packageSpec))),
              fullSpec |-> packageSpec]

\* name, or name@version when the version is truthy
createPackageSpec(name, version) ==
    IF ~Truthy(version) THEN name ELSE name \o <<"@">> \o version.str

-----------------------------------------------------------------------------
(* Version model: parseVersion, compareVersions *)

\* evaluates value once and hands it to Body
Bind(value, Body(_)) == CHOOSE r \in {Body(v) : v \in {value}} : TRUE

\* where the groups of
\*   /^(\d+)(?:\.(\d+))?(?:\.(\d+))?(?:-([^+]+))?(?:\+(.+))?$/
\* end in t: e1 the major, e2 the minor, e3 the patch, e4 the prerelease,
\* e5 the build; a group that does not take part ends where the one before ends
minorEnd(t, e1) ==
    IF e1 >= 1 /\ e1 + 2 <= Len(t) /\ t[e1+1] = "." /\ IsDigit(t[e1+2])
    THEN DigitRunEnd(t, e1 + 2) ELSE e1
patchEnd(t, e1, e2) ==
    IF e2 > e1 /\ e2 + 2 <= Len(t) /\ t[e2+1] = "." /\ IsDigit(t[e2+2])
    THEN DigitRunEnd(t, e2 + 2) ELSE e2
prereleaseEnd(t, e3) ==
    IF e3 + 2 <= Len(t) /\ t[e3+1] = "-" /\ t[e3+2] # "+"
    THEN IF indexOfFrom(t, "+", e3 + 2) = 0 THEN Len(t)
         ELSE indexOfFrom(t, "+", e3 + 2) - 1
    ELSE e3
buildEnd(t, e4) ==
    IF e4 + 2 <= Len(t) /\ t[e4+1] = "+" THEN Len(t) ELSE e4

semverGroups(t, e1, e2, e3, e4, e5) ==
    [matched |-> e1 >= 1 /\ e5 = Len(t),
     major |-> parseInt(SubSeq(t, 1, e1)),
     minor |-> IF e2 > e1 THEN parseInt(SubSeq(t, e1 + 2, e2)) ELSE 0,
     patch |-> IF e3 > e2 THEN parseInt(SubSeq(t, e2 + 2, e3)) ELSE 0,
     prerelease |-> IF e4 > e3 THEN Str(SubSeq(t, e3 + 2, e4)) ELSE Undefined,
     build |-> IF e5 > e4 THEN Str(SubSeq(t, e4 + 2, e5)) ELSE Undefined]

\* trimmed.match(semverRegex)
semverMatch(t) ==
    Bind(DigitRunEnd(t, 1), LAMBDA e1 :
    Bind(minorEnd(t, e1), LAMBDA e2 :
    Bind(patchEnd(t, e1, e2), LAMBDA e3 :
    Bind(prereleaseEnd(t, e3), LAMBDA e4 :
    Bind(buildEnd(t, e4), LAMBDA e5 :
        semverGroups(t, e1, e2, e3, e4, e5))))))

\* trimmed.match(/\d+/g): the numbers of the runs of digits, in order
RECURSIVE digitRuns(_, _)
digitRuns(t, i) ==
    IF i > Len(t) THEN <<>>
    ELSE IF IsDigit(t[i])
         THEN <<parseInt(SubSeq(t, i, DigitRunEnd(t, i)))>>
                  \o digitRuns(t, DigitRunEnd(t, i) + 1)
         ELSE digitRuns(t, i + 1)

Parsed(ma, mi, pa, pre, build, orig) ==
    [ok |-> TRUE, major |-> ma, minor |-> mi, patch |-> pa,
     prerelease |-> pre, build |-> build, original |-> orig]
ParseFailed == [ok |-> FALSE]

\* parseVersion on the trimmed string t with m what the semantic-version
\* pattern matched: the first of that pattern, the digit runs, the opaque
\* string.  (The date and bare-number patterns match only strings the first
\* pattern matches.)
parseTrimmed(t, m) ==
    IF m.matched
    THEN Parsed(m.major, m.minor, m.patch, m.prerelease, m.build, t)
    ELSE IF Len(digitRuns(t, 1)) > 0
    THEN Bind(digitRuns(t, 1), LAMBDA numbers :
             Parsed(numbers[1],
                    IF Len(numbers) > 1 THEN numbers[2] ELSE 0,
                    IF Len(numbers) > 2 THEN numbers[3] ELSE 0,
                    IF indexOfFrom(t, "-", 1) # 0
                    THEN Str(SubSeq(t, indexOfFrom(t, "-", 1) + 1, Len(t)))
                    ELSE Undefined,
                    Undefined, t))
    ELSE Parsed(0, 0, 0, Str(t), Undefined, t)

\* parseVersion: throws on an empty or blank string
parseVersion(version) ==
    Bind(trim(version), LAMBDA t :
        IF version = <<>> \/ t = <<>> THEN ParseFailed
        ELSE Bind(semverMatch(t), LAMBDA m : parseTrimmed(t, m)))

Threw(cls) == [kind |-> "error", cls |-> cls, msg |-> {}, id |-> 0]

compareParsedOneSided(v1, v2) ==
    IF ~v1.ok \/ ~v2.ok THEN Threw("ValidationError")
    ELSE IF v1.major # v2.major
         THEN Ok(IF v1.major < v2.major THEN -1 ELSE 1)
    ELSE IF v1.minor # v2.minor
         THEN Ok(IF v1.minor < v2.minor THEN -1 ELSE 1)
    ELSE IF v1.patch # v2.patch
         THEN Ok(IF v1.patch < v2.patch THEN -1 ELSE 1)
    ELSE IF Truthy(v1.prerelease) THEN Ok(-1)
    ELSE IF Truthy(v2.prerelease) THEN Ok(1)
    ELSE Ok(localeCompare(v1.original, v2.original))

\* the comparison of two parsed versions: by (major, minor, patch), then
\* prerelease presence, prerelease text, original
compareParsed(v1, v2) ==
    IF ~v1.ok \/ ~v2.ok THEN Threw("ValidationError")
    ELSE IF v1.major # v2.major
         THEN Ok(IF v1.major < v2.major THEN -1 ELSE 1)
    ELSE IF v1.minor # v2.minor
         THEN Ok(IF v1.minor < v2.minor THEN -1 ELSE 1)
    ELSE IF v1.patch # v2.patch
         THEN Ok(IF v1.patch < v2.patch THEN -1 ELSE 1)
    ELSE IF Truthy(v1.prerelease) /\ ~Truthy(v2.prerelease) THEN Ok(-1)
    ELSE IF ~Truthy(v1.prerelease) /\ Truthy(v2.prerelease) THEN Ok(1)
    ELSE IF Truthy(v1.prerelease) /\ Truthy(v2.prerelease)
         THEN Ok(localeCompare(v1.prerelease.str, v2.prerelease.str))
    ELSE Ok(localeCompare(v1.original, v2.original))

\* compareVersions: identical strings are equal without parsing
compareVersions(version1, version2) ==
    IF version1 = version2 THEN Ok(0)
    ELSE Bind(parseVersion(version1), LAMBDA v1 :
         Bind(parseVersion(version2), LAMBDA v2 : compareParsed(v1, v2)))

-----------------------------------------------------------------------------
(* Error classifier *)

NetworkPatterns == {"ECONNRESET", "ETIMEDOUT", "ENOTFOUND", "ECONNREFUSED",
                    "fetch failed", "network error", "connection error"}
FileSystemPatterns == {"ENOENT", "EACCES", "EPERM", "ENOSPC", "no such file",
                       "permission denied", "access denied"}
DevboxCommandPatterns == {"devbox not found", "devbox failed",
                          "command not found devbox", "invalid package",
                          "package not found"}
ConfigurationPatterns == {"missing token", "invalid configuration",
                          "required parameter", "environment variable"}
GitHubRetryablePatterns == {"rate limit", "server error",
                            "service unavailable", "timeout"}


isNetworkError(e) == e.msg \cap NetworkPatterns # {}
isFileSystemError(e) == e.msg \cap FileSystemPatterns # {}
isDevboxCommandError(e) == e.msg \cap DevboxCommandPatterns # {}
isConfigurationError(e) == e.msg \cap ConfigurationPatterns # {}
gitHubErrorAlwaysRetryable(e) == TRUE
isGitHubErrorRetryable(e) == e.msg \cap GitHubRetryablePatterns # {}

Info(c, s, r) == [category |-> c, severity |-> s, retryable |-> r]

\* ErrorHandler.classifyError: the typed DevboxError classes first, then the
\* message patterns of a plain Error, else unknown.
classifyError(e) ==
    IF e.cls \in {"DevboxError", "NetworkError", "ValidationError", "GitHubError"}
    THEN IF e.cls = "NetworkError" THEN Info("network", "medium", TRUE)
         ELSE IF e.cls = "ValidationError" THEN Info("validation", "high", FALSE)
         ELSE IF e.cls = "GitHubError"
              THEN Info("github_api", "high", isGitHubErrorRetryable(e))
         ELSE Info("unknown", "medium", FALSE)
    ELSE IF e.cls = "Error"
    THEN IF isNetworkError(e) THEN Info("network", "medium", TRUE)
         ELSE IF isFileSystemError(e) THEN Info("file_system", "high", FALSE)
         ELSE IF isDevboxCommandError(e) THEN Info("devbox_command", "high", FALSE)
         ELSE IF isConfigurationError(e) THEN Info("configuration", "critical", FALSE)
         ELSE Info("unknown", "medium", FALSE)
    ELSE Info("unknown", "medium", FALSE)


\* ErrorHandler.shouldRetry
shouldRetry(e) == classifyError(e).retryable

-----------------------------------------------------------------------------
(* Retry engine: RetryMechanism.executeWithRetry *)

\* the error kinds an operation under test throws: class and message keywords
RetryableKinds == { <<"NetworkError", {}>>,
                    <<"GitHubError", {"rate limit"}>>,
                    <<"Error", {"ECONNRESET"}>> }
FatalKinds == { <<"ValidationError", {}>>,
                <<"ValidationError", {"ECONNRESET"}>>,
                <<"GitHubError", {}>>,
                <<"Error", {"ENOENT"}>>,
                <<"Error", {}>>,
                <<"NonError", {}>> }

Succeeds == <<"ok", {}>>

\* An operation fails op.fails times with op.failErr and then behaves as
\* op.then says: it returns a value, or throws op.then on every further call.
Operations == [fails : 0..MaxFails, failErr : RetryableKinds,
               then : {Succeeds} \cup FatalKinds, value : {"success"}]

\* the n-th invocation of operation o
OpOutcome(o, n) ==
    IF n <= o.fails THEN Err(o.failErr[1], o.failErr[2], n)
    ELSE IF o.then = Succeeds THEN Ok(o.value)
    ELSE Err(o.then[1], o.then[2], n)

mergeConfigIgnoringCustom(inst, custom) == inst

\* config = customConfig ? { ...this.config, ...customConfig } : this.config
mergeConfig(inst, custom) ==
    IF custom.given THEN custom.maxRetries ELSE inst


retryDecisionUnclassified(outcome, att, maxRetries) ==
    IF outcome.kind = "ok" THEN "return"
    ELSE IF att >= maxRetries THEN "throw"
    ELSE "sleep"

\* the body of the loop after operation() settled: return its value, rethrow
\* a non-retryable error, rethrow on the last attempt, else back off
retryDecision(outcome, att, maxRetries) ==
    IF outcome.kind = "ok" THEN "return"
    ELSE IF ~shouldRetry(outcome) THEN "throw"
    ELSE IF att >= maxRetries THEN "throw"
    ELSE "sleep"

UnexpectedEnd == Err("Error", {}, 0)

\* executeWithRetry as a function of the operation: what it settles with and
\* how often it invoked the operation
RECURSIVE retryLoop(_, _, _, _)
retryLoop(o, maxRetries, att, n) ==
    IF att > maxRetries
    THEN [result |-> UnexpectedEnd, invocations |-> n]
    ELSE LET outcome == OpOutcome(o, n + 1)
         IN  IF retryDecision(outcome, att, maxRetries) = "sleep"
             THEN retryLoop(o, maxRetries, att + 1, n + 1)
             ELSE [result |-> outcome, invocations |-> n + 1]

\* numbers with a fraction: num / den, den > 0
Ratio(num, den) == [num |-> num, den |-> den]
RECURSIVE Power(_, _)
Power(b, k) == IF k = 0 THEN 1 ELSE b * Power(b, k - 1)
\* Math.min of a ratio and a whole number
MathMin(x, whole) ==
    IF x.num > whole * x.den THEN Ratio(whole, 1) ELSE x
\* Math.round of a ratio that is not negative: halves go up
MathRound(x) == (2 * x.num + x.den) \div (2 * x.den)

\* the values of Math.random() told apart: 0, 0.5, 0.999
RandomDraws == {Ratio(0, 1000), Ratio(500, 1000), Ratio(999, 1000)}

calculateDelayUncapped(att, retryConfig, random) ==
    MathRound(Ratio(retryConfig.baseDelay * Power(retryConfig.multiplier.num, att),
                    Power(retryConfig.multiplier.den, att)))

\* calculateDelay: the backoff, the cap, the jitter of 10 per cent, the
\* rounding
calculateDelay(att, retryConfig, random) ==
    LET capped == MathMin(Ratio(retryConfig.baseDelay
                                    * Power(retryConfig.multiplier.num, att),
                                Power(retryConfig.multiplier.den, att)),
                          retryConfig.maxDelay)
        \* delay + (random - 0.5) * 2 * (delay * 0.1)
        jittered == Ratio(capped.num * (10 * random.den + 2 * random.num - random.den),
                          capped.den * 10 * random.den)
    IN  IF retryConfig.jitter
        THEN MathRound(IF jittered.num < 0 THEN Ratio(0, 1) ELSE jittered)
        ELSE MathRound(capped)

\* the attempts of the loop after which it sleeps
RECURSIVE retrySleeps(_, _, _, _)
retrySleeps(o, maxRetries, att, n) ==
    IF att > maxRetries THEN <<>>
    ELSE IF retryDecision(OpOutcome(o, n + 1), att, maxRetries) = "sleep"
         THEN <<att>> \o retrySleeps(o, maxRetries, att + 1, n + 1)
         ELSE <<>>

executeWithRetry(o, inst, custom) ==
    retryLoop(o, mergeConfig(inst, custom), 0, 0)

\* the registry request is made once
retryNetworkRequestOnce(o) ==
    executeWithRetry(o, DefaultMaxRetries, WithMaxRetries(0))

\* retryNetworkRequest on the global instance: the registry's retry defaults
retryNetworkRequest(o) ==
    executeWithRetry(o, DefaultMaxRetries, WithMaxRetries(ApiMaxRetries))

-----------------------------------------------------------------------------
(* Registry client: getLatestVersion, checkForUpdates *)

UNKNOWN == <<"u", "n", "k", "n", "o", "w", "n">>
LATEST == <<"l", "a", "t", "e", "s", "t">>
LOOKUP_FAILED == <<"l", "o", "o", "k", "u", "p", "-", "f", "a", "i", "l", "e", "d">>

\* what the registry answers: no body, a body without (or with an empty)
\* version field, a body with a version
NullData == [isObject |-> FALSE, version |-> Undefined]
Data(v) == [isObject |-> TRUE, version |-> v]
RegistryVersions == { <<"1", "8", ".", "0", ".", "0">>,
                      <<"2", "0", ".", "1", "0", ".", "0">>,
                      <<"2", "0", ".", "1", "0", ".", "0", "-", "r", "c">>,
                      <<" ">> }
Responses == {NullData, Data(Undefined), Data(Str(<<>>))}
                 \cup {Data(Str(v)) : v \in RegistryVersions}

\* the request of makeApiRequest: an axios failure becomes a NetworkError,
\* any other throw passes as it is
AxiosFailure == <<"NetworkError", {}>>
RegistryOps == [fails : 0..MaxLookupFails,
                failErr : {AxiosFailure, <<"Error", {"network error"}>>},
                then : {Succeeds, <<"Error", {}>>},
                value : Responses]

\* getLatestVersion, given what makeApiRequest settled with
getLatestVersion(settled) ==
    IF settled.kind = "ok"
    THEN IF ~settled.value.isObject
         THEN Err("NetworkError", {}, 0)      \* TypeError, wrapped
         ELSE IF ~Truthy(settled.value.version)
         THEN Err("ValidationError", {}, 0)
         ELSE Ok(settled.value.version.str)
    ELSE IF settled.cls \in {"NetworkError", "ValidationError"} THEN settled
    ELSE Err("NetworkError", settled.msg, settled.id)

Candidate(name, current, latest, available) ==
    [packageName |-> name, currentVersion |-> current,
     latestVersion |-> latest, updateAvailable |-> available]

\* the try block of checkForUpdates
checkForUpdatesTry(parsedPackage, refreshLatest, lookup) ==
    LET currentVersion == IF Truthy(parsedPackage.version)
                          THEN parsedPackage.version.str ELSE UNKNOWN
        cmp == compareVersions(lookup.value, currentVersion)
    IN  IF lookup.kind # "ok" THEN lookup
        ELSE IF parsedPackage.version = Str(LATEST)
        THEN Ok(Candidate(parsedPackage.name, LATEST, lookup.value, refreshLatest))
        ELSE IF ~Truthy(parsedPackage.version)
        THEN Ok(Candidate(parsedPackage.name, currentVersion, lookup.value, TRUE))
        ELSE IF cmp.kind # "ok" THEN cmp
        ELSE Ok(Candidate(parsedPackage.name, currentVersion, lookup.value,
                          cmp.value > 0))

checkForUpdatesUncaught(parsedPackage, refreshLatest, lookup) ==
    checkForUpdatesTry(parsedPackage, refreshLatest, lookup)

checkForUpdatesComparingLatest(parsedPackage, refreshLatest, lookup) ==
    LET currentVersion == IF Truthy(parsedPackage.version)
                          THEN parsedPackage.version.str ELSE UNKNOWN
        cmp == compareVersions(lookup.value, currentVersion)
    IN  IF lookup.kind = "ok" /\ cmp.kind = "ok" /\ Truthy(parsedPackage.version)
        THEN Ok(Candidate(parsedPackage.name, currentVersion, lookup.value,
                          cmp.value > 0))
        ELSE Ok(Candidate(parsedPackage.name, currentVersion, LOOKUP_FAILED,
                          FALSE))

\* the catch reports the package it could not look up as updatable
checkForUpdatesFailedAvailable(parsedPackage, refreshLatest, lookup) ==
    LET tried == checkForUpdatesTry(parsedPackage, refreshLatest, lookup)
    IN  IF tried.kind = "ok" THEN tried
        ELSE Ok(Candidate(parsedPackage.name,
                          IF Truthy(parsedPackage.version)
                          THEN parsedPackage.version.str ELSE UNKNOWN,
                          LOOKUP_FAILED, TRUE))

\* checkForUpdates: the try block, and the catch that turns any throw into
\* the lookup-failed candidate
checkForUpdates(parsedPackage, refreshLatest, lookup) ==
    LET tried == checkForUpdatesTry(parsedPackage, refreshLatest, lookup)
    IN  IF tried.kind = "ok" THEN tried
        ELSE Ok(Candidate(parsedPackage.name,
                          IF Truthy(parsedPackage.version)
                          THEN parsedPackage.version.str ELSE UNKNOWN,
                          LOOKUP_FAILED, FALSE))

\* the manifest entries the update check is run on
CheckedSpecs == { <<"n", "o", "d", "e", "j", "s">>,
                  <<"n", "o", "d", "e", "j", "s", "@">>,
                  <<"n", "o", "d", "e", "j", "s", "@", " ">>,
                  <<"n", "o", "d", "e", "j", "s", "@", "l", "a", "t", "e", "s", "t">>,
                  <<"n", "o", "d", "e", "j", "s", "@", "1", "8", ".", "0", ".", "0">>,
                  <<"n", "o", "d", "e", "j", "s", "@", "2", "0", ".", "1", "0", ".", "0">>,
                  <<"@", "s", "c", "o", "p", "e", "/", "p", "k", "g", "@", "2", "2", ".", "1", ".", "0">> }

-----------------------------------------------------------------------------
(* File mutator: the operations of FileManager on devbox.json, its backup,  *)
(* devbox.lock and the local repository                                     *)

\* a file: absent, text that is no JSON, or a JSON manifest with its packages
\* array and its formatting (as authored, or as JSON.stringify(_, null, 2))
NoFile == [state |-> "absent", packages |-> <<>>, form |-> "none"]
TornFile == [state |-> "malformed", packages |-> <<>>, form |-> "none"]
JsonFile(packages, form) == [state |-> "json", packages |-> packages, form |-> form]

\* a DevboxError with its code
DevboxErr(code) ==
    [kind |-> "error", cls |-> "DevboxError", msg |-> {}, id |-> 0, code |-> code]

\* validateDevboxConfig: a non-empty packages array of non-blank strings
validateDevboxConfig(packages) ==
    /\ Len(packages) > 0
    /\ \A i \in 1..Len(packages) : trim(packages[i]) # <<>>

\* readConfig: readFile, JSON.parse, validateDevboxConfig
readConfig(file, io) ==
    IF file.state = "absent" THEN DevboxErr("FILE_NOT_FOUND")
    ELSE IF ~io THEN Err("Error", {"EACCES"}, 0)
    ELSE IF file.state = "malformed" THEN Err("ValidationError", {}, 0)
    ELSE IF ~validateDevboxConfig(file.packages) THEN Err("ValidationError", {}, 0)
    ELSE Ok(file.packages)

IsAvailable(update) == update.updateAvailable
IsConfigUpdate(update) == update.currentVersion # LATEST

validUpdatesUnfiltered(updates) == updates

\* updates.filter((update) => update.updateAvailable)
validUpdates(updates) == SelectSeq(updates, IsAvailable)

\* validUpdates.filter((update) => update.currentVersion !== "latest")
configUpdates(updates) == SelectSeq(validUpdates(updates), IsConfigUpdate)

\* updateMap.get(name) after the forEach that fills the map: the version of
\* the last available update of that name that is not a "latest" pin
RECURSIVE updateMapGet(_, _)
updateMapGet(updates, name) ==
    IF updates = <<>> THEN Undefined
    ELSE LET update == updates[Len(updates)]
         IN  IF /\ update.updateAvailable
                /\ update.currentVersion # LATEST
                /\ update.packageName = name
             THEN Str(update.latestVersion)
             ELSE updateMapGet(SubSeq(updates, 1, Len(updates) - 1), name)

\* only the entries found in the map are kept
updatePackagesSelected(packages, updates) ==
    SelectSeq(packages,
              LAMBDA entry : Truthy(updateMapGet(updates, parsePackageSpec(entry).name)))

\* updatePackages: every entry whose parsed name is in the map is rebuilt
\* from the name and the map's version, every other entry is kept
updatePackages(packages, updates) ==
    [i \in 1..Len(packages) |->
        LET parsed == parsePackageSpec(packages[i])
            newVersion == updateMapGet(updates, parsed.name)
        IN  IF Truthy(newVersion)
            THEN createPackageSpec(parsed.name, newVersion)
            ELSE packages[i]]

\* the catch of applyUpdates: the restore was tried, the caught error is thrown
rethrowRestoreError(caught, restored) ==
    IF restored THEN caught ELSE DevboxErr("RESTORE_ERROR")
rethrow(caught, restored) == caught

\* the packages of the examples
nodejs == <<"n", "o", "d", "e", "j", "s">>
python == <<"p", "y", "t", "h", "o", "n">>
go == <<"g", "o">>
V18 == <<"1", "8", ".", "0", ".", "0">>
V20 == <<"2", "0", ".", "1", "0", ".", "0">>
V312 == <<"3", ".", "1", "2">>
V121 == <<"1", ".", "2", "1">>

\* the manifests applyUpdates is run on
Manifests ==
    { <<createPackageSpec(nodejs, Str(V18)), createPackageSpec(python, Str(LATEST))>>,
      <<createPackageSpec(nodejs, Str(V18)), createPackageSpec(nodejs, Str(LATEST))>>,
      <<createPackageSpec(nodejs, Str(V18))>>,
      <<go>> }

\* the candidates applyUpdates is handed
Candidates ==
    { Candidate(nodejs, V18, V20, TRUE),
      Candidate(nodejs, V18, LOOKUP_FAILED, FALSE),
      Candidate(nodejs, V20, V20, FALSE),
      Candidate(nodejs, LATEST, V20, TRUE),
      Candidate(python, LATEST, V312, TRUE),
      Candidate(go, UNKNOWN, V121, TRUE) }

CandidateLists ==
    {<<>>} \cup {<<c>> : c \in Candidates}
           \cup {<<c, d>> : c \in Candidates, d \in Candidates}

-----------------------------------------------------------------------------
(* Scanner: loadDevboxConfig, scanForUpdates, generateUpdateSummary *)

\* loadDevboxConfig: whatever goes wrong is thrown as a ValidationError
loadDevboxConfigUnwrapped(file, io) ==
    IF file.state = "json" /\ io /\ validateDevboxConfig(file.packages)
    THEN Ok(file.packages)
    ELSE Err("NetworkError", {}, 0)
loadDevboxConfig(file, io) ==
    IF file.state = "json" /\ io /\ validateDevboxConfig(file.packages)
    THEN Ok(file.packages)
    ELSE Err("ValidationError", {}, 0)

\* the flag the scanner's VersionQueryService is constructed with
scannerUpdateLatest(cfg) == FALSE

IsFulfilled(result) == result.kind = "ok"
checkMultipleOmittingFailed(packages, refreshLatest, settled) ==
    LET results == [i \in 1..Len(packages) |->
                       checkForUpdatesTry(parsePackageSpec(packages[i]),
                                          refreshLatest, settled[i])]
        successfulResults == SelectSeq(results, IsFulfilled)
    IN  [i \in 1..Len(successfulResults) |-> successfulResults[i].value]

\* checkMultiplePackagesForUpdates: one candidate per package, by index
checkMultiplePackagesForUpdates(packages, refreshLatest, settled) ==
    LET results == [i \in 1..Len(packages) |->
                       checkForUpdates(parsePackageSpec(packages[i]),
                                       refreshLatest, settled[i])]
        successfulResults == SelectSeq(results, IsFulfilled)
    IN  [i \in 1..Len(successfulResults) |-> successfulResults[i].value]

\* the summary text: the headline and one line per available update
SummaryText(availableUpdates) ==
    IF Len(availableUpdates) > 0
    THEN [headline |-> "Found package update(s) available",
          lines |-> [i \in 1..Len(availableUpdates) |->
                        <<availableUpdates[i].packageName,
                          availableUpdates[i].currentVersion,
                          availableUpdates[i].latestVersion>>]]
    ELSE [headline |-> "All packages are up to date.", lines |-> <<>>]

\* the summary of every scanned candidate
generateUpdateSummaryOfAll(updates) ==
    [totalUpdates |-> Len(updates),
     updates |-> updates,
     hasChanges |-> Len(updates) > 0,
     summary |-> SummaryText(updates)]

\* generateUpdateSummary, given the candidates of scanForUpdates
generateUpdateSummary(updates) ==
    LET availableUpdates == SelectSeq(updates, IsAvailable)
    IN  [totalUpdates |-> Len(availableUpdates),
         updates |-> availableUpdates,
         hasChanges |-> Len(availableUpdates) > 0,
         summary |-> SummaryText(availableUpdates)]

-----------------------------------------------------------------------------
(* Pull request manager: titles, bodies, branch names, the PR filter *)

Letters == {"a", "b", "c", "d", "e", "f", "g", "h", "i", "j", "k", "l", "m",
            "n", "o", "p", "q", "r", "s", "t", "u", "v", "w", "x", "y", "z"}
UpperLetters == {"D", "T"}

\* String.prototype.toLowerCase
lowerChar(c) == CASE c = "D" -> "d" [] c = "T" -> "t" [] OTHER -> c
toLowerCase(s) == [i \in 1..Len(s) |-> lowerChar(s[i])]

\* String.prototype.includes, startsWith
includes(s, sub) ==
    \E i \in 1..(Len(s) - Len(sub) + 1) : SubSeq(s, i, i + Len(sub) - 1) = sub
startsWith(s, p) == Len(s) >= Len(p) /\ SubSeq(s, 1, Len(p)) = p

\* Number.prototype.toString
DigitChar(n) == CHOOSE c \in Digits : DigitVal(c) = n
RECURSIVE NumStr(_)
NumStr(n) ==
    IF n < 10 THEN <<DigitChar(n)>>
    ELSE NumStr(n \div 10) \o <<DigitChar(n % 10)>>

\* replace(/[^a-zA-Z0-9-]/g, "-")
branchSafe(s) ==
    [i \in 1..Len(s) |->
        IF s[i] \in Letters \cup UpperLetters \cup Digits \cup {"-"}
        THEN s[i] ELSE "-"]
\* replace(/[^a-zA-Z0-9\-_.]/g, "-")
uniqueSafe(s) ==
    [i \in 1..Len(s) |->
        IF s[i] \in Letters \cup UpperLetters \cup Digits \cup {"-", "_", "."}
        THEN s[i] ELSE "-"]
\* split("@")[0]
beforeAt(s) ==
    LET at == indexOfFrom(s, "@", 1)
    IN  IF at = 0 THEN s ELSE SubSeq(s, 1, at - 1)

\* the date and the time of the forge's clock, as toISOString prints them
IsoDate(now) == <<"2", "0", "2", "6", "-", "0", "1", "-", "0">> \o NumStr(now)
IsoTime(now) == IsoDate(now) \o <<"T", "0", "0", "-", "0", "0", "-", "0">> \o NumStr(now)

\* generatePRTitle
generatePRTitle(updateSummary) ==
    IF updateSummary.totalUpdates = 1
    THEN <<"c", "h", "o", "r", "e", ":", " ", "u", "p", "d", "a", "t", "e", " ">> \o updateSummary.updates[1].packageName \o <<" ", "f", "r", "o", "m", " ">>
             \o updateSummary.updates[1].currentVersion \o <<" ", "t", "o", " ">>
             \o updateSummary.updates[1].latestVersion
    ELSE <<"c", "h", "o", "r", "e", ":", " ", "u", "p", "d", "a", "t", "e", " ">> \o NumStr(updateSummary.totalUpdates) \o <<" ", "D", "e", "v", "b", "o", "x", " ", "p", "a", "c", "k", "a", "g", "e", "s">>

\* a PR body: the blocks it is made of.  formatChangeDescription writes the
\* block of a fresh description, mergeDescriptions appends a block of
\* additional updates to the body that is there
EmptyBody == <<>>
formatChangeDescription(updates) ==
    IF Len(updates) = 0 THEN <<[block |-> "none", updates |-> <<>>]>>
    ELSE <<[block |-> "updates", updates |-> updates]>>
\* the description is replaced whatever the strategy
mergeDescriptionsOverwriting(existingBody, newUpdates, conflictResolution) ==
    formatChangeDescription(newUpdates)
mergeDescriptions(existingBody, newUpdates, conflictResolution) ==
    IF conflictResolution = "overwrite" THEN formatChangeDescription(newUpdates)
    ELSE existingBody \o <<[block |-> "additional", updates |-> newUpdates]>>

\* the default strategy replaces the description
DefaultStrategyOverwrite == [preserveExistingUpdates |-> TRUE,
                             conflictResolution |-> "overwrite",
                             updateDescription |-> TRUE]

\* the default MergeStrategy of updateExistingPR
DefaultStrategy == [preserveExistingUpdates |-> TRUE,
                    conflictResolution |-> "merge",
                    updateDescription |-> TRUE]

\* updateExistingPR: the title and the body of the pulls.update request
updateExistingPR(pr, updateSummary, strategy) ==
    IF ~strategy.updateDescription
    THEN [title |-> pr.title, body |-> pr.body]
    ELSE [title |-> generatePRTitle(updateSummary),
          body |-> IF strategy.preserveExistingUpdates /\ pr.body # EmptyBody
                   THEN mergeDescriptions(pr.body, updateSummary.updates,
                                          strategy.conflictResolution)
                   ELSE formatChangeDescription(updateSummary.updates)]

\* MergeStrategy
MergeStrategies ==
    [preserveExistingUpdates : BOOLEAN,
     conflictResolution : {"fail", "overwrite", "merge"},
     updateDescription : BOOLEAN]

\* generatePackageBranchName
generatePackageBranchName(prefix, packageName, targetVersion, resolvedVersion, now) ==
    LET cleanPackageName == toLowerCase(branchSafe(beforeAt(packageName)))
        versionForBranch ==
            IF toLowerCase(targetVersion) = LATEST /\ resolvedVersion # <<>>
            THEN resolvedVersion
            ELSE IF toLowerCase(targetVersion) = LATEST
            THEN <<"l", "a", "t", "e", "s", "t", "-">> \o IsoDate(now)
            ELSE targetVersion
    IN  prefix \o <<"/">> \o cleanPackageName \o <<"-">> \o branchSafe(versionForBranch)

generateMultiPackageBranchName(prefix) == prefix \o <<"/", "m", "u", "l", "t", "i", "-", "p", "a", "c", "k", "a", "g", "e", "-", "u", "p", "d", "a", "t", "e", "s">>

generateBranchNameMulti(prefix, updates, now) ==
    generateMultiPackageBranchName(prefix)

\* generateBranchName, in the single-package mode the run constructs
generateBranchName(prefix, updates, now) ==
    IF Len(updates) = 1
    THEN generatePackageBranchName(prefix, updates[1].packageName,
                                   updates[1].latestVersion,
                                   updates[1].latestVersion, now)
    ELSE generateMultiPackageBranchName(prefix)

\* generateUniqueBranchName
generateUniqueBranchName(prefix, updates, now) ==
    IF Len(updates) = 1
    THEN prefix \o <<"/">> \o toLowerCase(uniqueSafe(updates[1].packageName))
             \o <<"-">> \o IsoTime(now)
    ELSE prefix \o <<"/", "u", "p", "d", "a", "t", "e", "s", "-">> \o IsoTime(now)

\* per_page of pulls.list
PerPage == 100

\* pulls.list({state: "open", per_page: 100}): the first page of the open
\* pull requests, in the order the forge lists them
pullsList(pulls) ==
    LET open == SelectSeq(pulls, LAMBDA pr : pr.state = "open")
    IN  SubSeq(open, 1, IF Len(open) < PerPage THEN Len(open) ELSE PerPage)

\* the filter of checkExistingPR
isDevboxPR(pr, prefix) ==
    \/ startsWith(pr.head, prefix \o <<"/">>)
    \/ startsWith(pr.head, prefix \o <<"-">>)
    \/ /\ includes(toLowerCase(pr.title), <<"d", "e", "v", "b", "o", "x">>)
       /\ includes(toLowerCase(pr.title), <<"u", "p", "d", "a", "t", "e">>)

Null == [isNull |-> TRUE]
ExistingPRInfo(pr) ==
    [isNull |-> FALSE, number |-> pr.number, branch |-> pr.head,
     title |-> pr.title, body |-> pr.body, state |-> pr.state,
     updatedAt |-> pr.updatedAt]

\* checkExistingPR: of the open PRs that pass the filter the most recently
\* updated one; null when there is none, and null when the listing failed
checkExistingPR(pulls, prefix, listed) ==
    LET devboxPRs == {i \in 1..Len(pulls) :
                         pulls[i].state = "open" /\ isDevboxPR(pulls[i], prefix)}
    IN  IF ~listed \/ devboxPRs = {} THEN Null
        ELSE ExistingPRInfo(pulls[CHOOSE i \in devboxPRs :
                 \A j \in devboxPRs :
                    \/ pulls[j].updatedAt < pulls[i].updatedAt
                    \/ pulls[j].updatedAt = pulls[i].updatedAt /\ i <= j])

-----------------------------------------------------------------------------
(* Orchestrator: inputs, outputs, the catch of run *)

\* validateConfig
validateConfig(cfg) ==
    IF cfg.token = <<>> THEN Err("Error", {}, 0)
    ELSE IF JsLess(cfg.maxRetries, JsNumber(0))
                \/ JsLess(JsNumber(MaxRetriesLimit), cfg.maxRetries)
         THEN Err("Error", {}, 0)
    ELSE IF cfg.branchPrefix = <<>> \/ trim(cfg.branchPrefix) = <<>>
         THEN Err("Error", {}, 0)
    ELSE Ok(cfg)

\* core.getInput(name): the input of the workflow, trimmed
getInput(input) == trim(input)
\* core.getInput(name) || fallback
getInputOr(input, fallback) ==
    IF getInput(input) = <<>> THEN fallback ELSE getInput(input)

\* the ActionConfig run builds from the inputs
ActionConfig(inputs) ==
    [token |-> getInput(inputs.token),
     branchPrefix |-> getInputOr(inputs.branchPrefix, <<"d", "e", "v", "b", "o", "x", "-", "u", "p", "d", "a", "t", "e", "s">>),
     maxRetries |-> parseIntRadix10(getInputOr(inputs.maxRetries, <<"3">>)),
     updateLatest |-> toLowerCase(getInput(inputs.updateLatest)) = <<"t", "r", "u", "e">>]

\* a workflow that sets the token and leaves the other inputs out
DefaultInputs == [token |-> <<"g", "h", "s">>, branchPrefix |-> <<>>, maxRetries |-> <<>>,
                  updateLatest |-> <<>>]
DefaultConfig == ActionConfig(DefaultInputs)
\* the inputs of a run
Inputs == { DefaultInputs,
            [DefaultInputs EXCEPT !.maxRetries = <<"0">>, !.updateLatest = <<"T", "r", "u", "e">>],
            [DefaultInputs EXCEPT !.token = <<>>],
            [DefaultInputs EXCEPT !.maxRetries = <<"1", "1">>],
            [DefaultInputs EXCEPT !.maxRetries = <<"-", "1">>],
            [DefaultInputs EXCEPT !.maxRetries = <<"a", "b", "c">>],
            [DefaultInputs EXCEPT !.branchPrefix = <<" ">>],
            [DefaultInputs EXCEPT !.branchPrefix = <<"d", "e", "v", "b", "o", "x">>] }
Configs == {ActionConfig(inputs) : inputs \in Inputs}

NoNumber == [defined |-> FALSE, number |-> 0]
Number(n) == [defined |-> TRUE, number |-> n]
NoMessage == [defined |-> FALSE]

\* the outputs start with pr_updated set
InitialOutputsUpdated ==
    [changes |-> FALSE,
     update_summary |-> [headline |-> "No updates processed", lines |-> <<>>],
     pr_number |-> NoNumber, pr_updated |-> TRUE,
     existing_pr_found |-> FALSE, error_message |-> NoMessage]

\* the outputs object run starts with
InitialOutputs ==
    [changes |-> FALSE,
     update_summary |-> [headline |-> "No updates processed", lines |-> <<>>],
     pr_number |-> NoNumber, pr_updated |-> FALSE,
     existing_pr_found |-> FALSE, error_message |-> NoMessage]

\* createUserFriendlyMessage(handleError(error)): the error's text with the
\* suggestions of its category and, for a retryable one, the retry notice
createUserFriendlyMessage(error) ==
    [defined |-> TRUE, of |-> error,
     category |-> classifyError(error).category,
     retryNotice |-> classifyError(error).retryable]

\* what the registry answers for one manifest entry during a scan
ScanLookups == {Err("NetworkError", {}, 0), Ok(V18), Ok(V20)}

\* how a forge call fails
ForgeFailures == {{}, {"rate limit"}}

-----------------------------------------------------------------------------
(* The components at rest *)

CheckRest ==
    /\ registry = [fails |-> 0, failErr |-> AxiosFailure, then |-> Succeeds,
                   value |-> NullData]
    /\ requests = 0
    /\ ckLookup = NoValue
    /\ ckResult = NoValue
    /\ ckPc = "idle"

\* no update check is under way
CheckIdle ==
    /\ pkg = parsePackageSpec(<<"n">>)
    /\ updateLatest = FALSE
    /\ CheckRest

CheckInit ==
    /\ pkg \in {parsePackageSpec(sp) : sp \in CheckedSpecs}
    /\ updateLatest \in BOOLEAN
    /\ CheckRest

\* the retry engine at rest, as the module constructs its global instance
RetryIdle ==
    /\ instMaxRetries = DefaultMaxRetries
    /\ customConfig = NoConfig
    /\ op = [fails |-> 0, failErr |-> <<"NetworkError", {}>>, then |-> Succeeds,
             value |-> "success"]
    /\ rtPc = "idle"
    /\ attempt = 0
    /\ invocations = 0
    /\ sleeps = 0
    /\ rtResult = NoValue

\* the workspace before applyUpdates is called
FmRest ==
    /\ backupFile = NoFile
    /\ vcsLog = <<>>
    /\ fmPc = "idle"
    /\ fmUpdates = <<>>
    /\ fmConfig = <<>>
    /\ fmCaught = NoValue
    /\ fmResult = NoValue
    /\ fmTrace = <<>>
    /\ fmPre = [manifest |-> NoFile, lockFile |-> "absent"]

FmIdle ==
    /\ manifest = NoFile
    /\ lockFile = "absent"
    /\ vcsHead = [manifest |-> NoFile, lockFile |-> "absent"]
    /\ FmRest

\* a checkout: the manifest as committed (or missing, or no JSON), the lock
\* as committed or missing
FmInit ==
    /\ manifest \in {JsonFile(m, "authored") : m \in Manifests}
                       \cup {NoFile, TornFile, JsonFile(<<>>, "authored")}
    /\ lockFile \in {"absent", "committed"}
    /\ vcsHead = [manifest |-> manifest, lockFile |-> lockFile]
    /\ FmRest

\* no run has started: the forge holds the default branch and no PR
RunIdle ==
    /\ runs = 0
    /\ runPc = "idle"
    /\ config = DefaultConfig
    /\ lookups = <<>>
    /\ summary = NoValue
    /\ existingPR = Null
    /\ outputs = InitialOutputs
    /\ emitted = NoValue
    /\ setFailedCalls = 0
    /\ scanInvocations = 0
    /\ scanAttempt = 0
    /\ branchName = <<>>
    /\ forgeCalls = <<>>
    /\ runError = NoValue
    /\ prs = <<>>
    /\ clock = 0

ForgeIdle ==
    /\ repoManifest = NoFile
    /\ repoLock = "absent"
    /\ defaultBranch = <<"m", "a", "i", "n">>
    /\ branches = {[name |-> <<"m", "a", "i", "n">>, from |-> <<>>]}

\* the repository the runs work on: what its default branch holds, how that
\* branch is named, and whether there is a branch "main" beside it
ForgeInit ==
    /\ repoManifest \in {JsonFile(m, "authored") : m \in Manifests}
                           \cup {NoFile, TornFile, JsonFile(<<>>, "authored")}
    /\ repoLock = "committed"
    /\ defaultBranch \in {<<"m", "a", "i", "n">>, <<"m", "a", "s", "t", "e", "r">>}
    /\ branches \in {{[name |-> defaultBranch, from |-> <<>>]},
                     {[name |-> defaultBranch, from |-> <<>>],
                      [name |-> <<"m", "a", "i", "n">>, from |-> <<>>]}}

\* checkMultiplePackagesForUpdates and handleError not in use
LookupIdle ==
    /\ lkPackages = <<>>
    /\ lkRegistry = <<>>
    /\ lkAttempt = <<>>
    /\ lkRequests = <<>>
    /\ lkSleeps = <<>>
    /\ lkPc = <<>>
    /\ lkLookup = <<>>
    /\ lkOrder = <<>>
    /\ lkReturned = NoValue
    /\ lkMaxRetries = DefaultMaxRetries

ClassIdle ==
    /\ thrown = NoValue
    /\ errorInfo = NoValue

\* no call of a pure function is under way
CallIdle ==
    /\ callArgs = NoValue
    /\ callResult = NoValue

-----------------------------------------------------------------------------
(* The retry engine, step by step *)

\* executeWithRetry is called: the configuration is merged, the loop starts
RetryCall ==
    /\ rtPc = "idle"
    /\ \E c \in {NoConfig} \cup {WithMaxRetries(n) : n \in 0..MaxRetriesLimit},
          o \in Operations :
          /\ customConfig' = c
          /\ op' = o
    /\ rtPc' = "attempt"
    /\ attempt' = 0
    /\ UNCHANGED <<instMaxRetries, invocations, sleeps, rtResult>>

\* one pass of the loop, from the loop test to the next suspension
ExecAttempt(outcome) ==
    LET maxRetries == mergeConfig(instMaxRetries, customConfig)
        d == retryDecision(outcome, attempt, maxRetries)
    IN  /\ rtPc = "attempt"
        /\ IF attempt <= maxRetries
           THEN /\ invocations' = invocations + 1
                /\ rtPc' = CASE d = "return" -> "returned"
                             [] d = "throw" -> "thrown"
                             [] OTHER -> "sleeping"
                /\ rtResult' = IF d = "sleep" THEN rtResult ELSE outcome
           ELSE /\ rtPc' = "thrown"
                /\ rtResult' = UnexpectedEnd
                /\ UNCHANGED invocations
        /\ UNCHANGED <<instMaxRetries, customConfig, op, attempt, sleeps>>

RetryAttempt == ExecAttempt(OpOutcome(op, invocations + 1))

\* the backoff delay elapsed: attempt++
RetryWake ==
    /\ rtPc = "sleeping"
    /\ rtPc' = "attempt"
    /\ attempt' = attempt + 1
    /\ sleeps' = sleeps + 1
    /\ UNCHANGED <<instMaxRetries, customConfig, op, invocations, rtResult>>

RetryInit ==
    /\ instMaxRetries \in 0..MaxRetriesLimit
    /\ customConfig = NoConfig
    /\ op = [fails |-> 0, failErr |-> <<"NetworkError", {}>>, then |-> Succeeds,
             value |-> "success"]
    /\ rtPc = "idle"
    /\ attempt = 0
    /\ invocations = 0
    /\ sleeps = 0
    /\ rtResult = NoValue

RetryNext ==
    \/ RetryCall /\ UNCHANGED notRetryVars
    \/ RetryAttempt /\ UNCHANGED notRetryVars
    \/ RetryWake /\ UNCHANGED notRetryVars

InitRetry == RetryInit /\ CheckIdle /\ FmIdle /\ RunIdle /\ ForgeIdle
             /\ LookupIdle /\ ClassIdle /\ CallIdle
SpecRetry == InitRetry /\ [][RetryNext]_vars

FairSpecRetry == SpecRetry /\ WF_vars(RetryNext)

RetryDone == rtPc \in {"returned", "thrown"}

-----------------------------------------------------------------------------
(* One update check *)

\* one call of checkForUpdates, from the request to the candidate
CheckForUpdates ==
    /\ ckPc = "idle"
    /\ \E r \in RegistryOps :
       \E request \in {retryNetworkRequest(r)} :
       \E lookup \in {getLatestVersion(request.result)} :
          /\ registry' = r
          /\ requests' = request.invocations
          /\ ckLookup' = lookup
          /\ ckResult' = checkForUpdates(pkg, updateLatest, lookup)
    /\ ckPc' = "done"
    /\ UNCHANGED <<pkg, updateLatest>>

CheckNext == CheckForUpdates /\ UNCHANGED notCheckVars

InitCheck == CheckInit /\ RetryIdle /\ FmIdle /\ RunIdle /\ ForgeIdle
             /\ LookupIdle /\ ClassIdle /\ CallIdle
SpecCheck == InitCheck /\ [][CheckNext]_vars


-----------------------------------------------------------------------------
(* applyUpdates, from one awaited call to the next *)

Step(name, ok) == [step |-> name, ok |-> ok]

\* applyUpdates is called: the candidates are filtered, and without a valid
\* one the call throws before it touches anything
FmCall(updates) ==
    /\ fmPc = "idle"
    /\ fmUpdates' = updates
    /\ fmPre' = [manifest |-> manifest, lockFile |-> lockFile]
    /\ IF Len(validUpdates(updates)) = 0
       THEN /\ fmPc' = "thrown"
            /\ fmResult' = DevboxErr("NO_UPDATES")
       ELSE /\ fmPc' = "createBackup"
            /\ fmResult' = NoValue
    /\ UNCHANGED <<manifest, backupFile, lockFile, vcsHead, vcsLog, fmConfig,
                   fmCaught, fmTrace>>

\* createBackup, outside the try: a failure is thrown as it is
CreateBackup ==
    /\ fmPc = "createBackup"
    /\ \E io \in BOOLEAN :
          LET ok == io /\ manifest.state # "absent"
          IN  /\ fmTrace' = Append(fmTrace, Step("createBackup", ok))
              /\ IF ok
                 THEN /\ backupFile' = manifest
                      /\ fmPc' = "readConfig"
                      /\ UNCHANGED fmResult
                 ELSE /\ fmPc' = "thrown"
                      /\ fmResult' = DevboxErr("BACKUP_ERROR")
                      /\ UNCHANGED backupFile
    /\ UNCHANGED <<manifest, lockFile, vcsHead, vcsLog, fmUpdates, fmConfig,
                   fmCaught, fmPre>>

\* readConfig, then the choice between rewriting the manifest and going on
ReadConfig ==
    /\ fmPc = "readConfig"
    /\ \E io \in BOOLEAN :
          LET read == readConfig(manifest, io)
          IN  /\ fmTrace' = Append(fmTrace, Step("readConfig", read.kind = "ok"))
              /\ IF read.kind = "ok"
                 THEN /\ fmConfig' = read.value
                      /\ fmPc' = IF Len(configUpdates(fmUpdates)) > 0
                                 THEN "writeConfig" ELSE "regenerateLock"
                      /\ UNCHANGED fmCaught
                 ELSE /\ fmCaught' = read
                      /\ fmPc' = "restoreFromBackup"
                      /\ UNCHANGED fmConfig
    /\ UNCHANGED <<manifest, backupFile, lockFile, vcsHead, vcsLog, fmUpdates,
                   fmResult, fmPre>>

\* updatePackages and writeConfig: the write succeeds, fails before it
\* changed the file, or fails and leaves a torn file
WriteConfig ==
    /\ fmPc = "writeConfig"
    /\ \E written \in {"written", "refused", "torn"} :
          LET updatedConfig == updatePackages(fmConfig, configUpdates(fmUpdates))
              valid == validateDevboxConfig(updatedConfig)
              ok == valid /\ written = "written"
          IN  /\ fmTrace' = Append(fmTrace, Step("writeConfig", ok))
              /\ manifest' = IF ~valid \/ written = "refused" THEN manifest
                             ELSE IF written = "torn" THEN TornFile
                             ELSE JsonFile(updatedConfig, "stringified")
              /\ IF ok
                 THEN /\ fmConfig' = updatedConfig
                      /\ fmPc' = "regenerateLock"
                      /\ UNCHANGED fmCaught
                 ELSE /\ fmCaught' = IF ~valid THEN Err("ValidationError", {}, 0)
                                     ELSE DevboxErr("FILE_WRITE_ERROR")
                      /\ fmPc' = "restoreFromBackup"
                      /\ UNCHANGED fmConfig
    /\ UNCHANGED <<backupFile, lockFile, vcsHead, vcsLog, fmUpdates, fmResult,
                   fmPre>>

\* regenerateLock: devbox version, unlink of the lock, devbox install, and
\* the check that a lock file is there
RegenerateLock ==
    /\ fmPc = "regenerateLock"
    /\ \E installed \in BOOLEAN, unlinked \in BOOLEAN,
          install \in {"fails", "nothing", "regenerated", "identical", "invalid"} :
          LET afterUnlink == IF unlinked THEN "absent" ELSE lockFile
              afterInstall ==
                  CASE install \in {"fails", "nothing"} -> afterUnlink
                    [] install = "identical" -> vcsHead.lockFile
                    [] OTHER -> install
              failure ==
                  IF ~installed THEN DevboxErr("DEVBOX_NOT_FOUND")
                  ELSE IF install = "fails" THEN DevboxErr("DEVBOX_COMMAND_FAILED")
                  ELSE IF afterInstall = "absent"
                       THEN DevboxErr("LOCK_GENERATION_FAILED")
                  ELSE NoValue
          IN  /\ fmTrace' = Append(fmTrace, Step("regenerateLock", failure = NoValue))
              /\ lockFile' = IF installed THEN afterInstall ELSE lockFile
              /\ IF failure = NoValue
                 THEN /\ fmPc' = "validateLockFile"
                      /\ UNCHANGED fmCaught
                 ELSE /\ fmCaught' = failure
                      /\ fmPc' = "restoreFromBackup"
    /\ UNCHANGED <<manifest, backupFile, vcsHead, vcsLog, fmUpdates, fmConfig,
                   fmResult, fmPre>>

\* the lock is not looked at before the commit
ValidateLockFileSkipped ==
    /\ fmPc = "validateLockFile"
    /\ fmTrace' = Append(fmTrace, Step("validateLockFile", TRUE))
    /\ fmPc' = "commitChanges"
    /\ UNCHANGED <<manifest, backupFile, lockFile, vcsHead, vcsLog, fmUpdates,
                   fmConfig, fmCaught, fmResult, fmPre>>

\* validateLockFile: the lock is there and is JSON
ValidateLockFile ==
    /\ fmPc = "validateLockFile"
    /\ LET ok == lockFile \in {"regenerated", "committed"}
       IN  /\ fmTrace' = Append(fmTrace, Step("validateLockFile", ok))
           /\ IF ok
              THEN /\ fmPc' = "commitChanges"
                   /\ UNCHANGED fmCaught
              ELSE /\ fmCaught' = DevboxErr("INVALID_LOCK_FILE")
                   /\ fmPc' = "restoreFromBackup"
    /\ UNCHANGED <<manifest, backupFile, lockFile, vcsHead, vcsLog, fmUpdates,
                   fmConfig, fmResult, fmPre>>

\* commitChanges: git add, git status, and git commit when something changed
CommitChanges ==
    /\ fmPc = "commitChanges"
    /\ \E git \in BOOLEAN :
          LET work == [manifest |-> manifest, lockFile |-> lockFile]
          IN  /\ fmTrace' = Append(fmTrace, Step("commitChanges", git))
              /\ IF git
                 THEN /\ vcsHead' = work
                      /\ vcsLog' = IF work = vcsHead THEN vcsLog
                                   ELSE Append(vcsLog, work)
                      /\ fmPc' = "returned"
                      /\ fmResult' = Ok(fmConfig)
                      /\ UNCHANGED fmCaught
                 ELSE /\ fmCaught' = DevboxErr("GIT_COMMIT_FAILED")
                      /\ fmPc' = "restoreFromBackup"
                      /\ UNCHANGED <<vcsHead, vcsLog, fmResult>>
    /\ UNCHANGED <<manifest, backupFile, lockFile, fmUpdates, fmConfig, fmPre>>

\* the catch puts the lock of before the call back as well
RestoreFromBackupWithLock ==
    /\ fmPc = "restoreFromBackup"
    /\ \E restored \in BOOLEAN :
          /\ fmTrace' = Append(fmTrace, Step("restoreFromBackup", restored))
          /\ manifest' = IF restored THEN backupFile ELSE manifest
          /\ lockFile' = IF restored THEN fmPre.lockFile ELSE lockFile
          /\ fmResult' = rethrow(fmCaught, restored)
    /\ fmPc' = "thrown"
    /\ UNCHANGED <<backupFile, vcsHead, vcsLog, fmUpdates, fmConfig,
                   fmCaught, fmPre>>

\* the catch: restoreFromBackup, whose own failure is logged, then the throw
RestoreFromBackup ==
    /\ fmPc = "restoreFromBackup"
    /\ \E restored \in BOOLEAN :
          /\ fmTrace' = Append(fmTrace, Step("restoreFromBackup", restored))
          /\ manifest' = IF restored THEN backupFile ELSE manifest
          /\ fmResult' = rethrow(fmCaught, restored)
    /\ fmPc' = "thrown"
    /\ UNCHANGED <<backupFile, lockFile, vcsHead, vcsLog, fmUpdates, fmConfig,
                   fmCaught, fmPre>>

ApplyUpdates == \E updates \in CandidateLists : FmCall(updates)

ApplyNext ==
    \/ ApplyUpdates /\ UNCHANGED notFmVars
    \/ CreateBackup /\ UNCHANGED notFmVars
    \/ ReadConfig /\ UNCHANGED notFmVars
    \/ WriteConfig /\ UNCHANGED notFmVars
    \/ RegenerateLock /\ UNCHANGED notFmVars
    \/ ValidateLockFile /\ UNCHANGED notFmVars
    \/ CommitChanges /\ UNCHANGED notFmVars
    \/ RestoreFromBackup /\ UNCHANGED notFmVars

InitApply == FmInit /\ RetryIdle /\ CheckIdle /\ RunIdle /\ ForgeIdle
             /\ LookupIdle /\ ClassIdle /\ CallIdle
SpecApply == InitApply /\ [][ApplyNext]_vars

-----------------------------------------------------------------------------
(* run, from one awaited call to the next, over repeated runs *)

CatchWithoutOutputs(error, out, failedCalls) ==
    /\ outputs' = [out EXCEPT !.error_message = createUserFriendlyMessage(error)]
    /\ UNCHANGED emitted
    /\ setFailedCalls' = failedCalls
    /\ runError' = error
    /\ runPc' = "done"

\* the catch reports the outputs of the start of the run
CatchResettingOutputs(error, out, failedCalls) ==
    /\ outputs' = [InitialOutputs EXCEPT
                      !.error_message = createUserFriendlyMessage(error)]
    /\ emitted' = [InitialOutputs EXCEPT
                      !.error_message = createUserFriendlyMessage(error)]
    /\ setFailedCalls' = failedCalls
    /\ runError' = error
    /\ runPc' = "done"

\* the catch of run: setFailed, the error message, the outputs
Catch(error, out, failedCalls) ==
    /\ outputs' = [out EXCEPT !.error_message = createUserFriendlyMessage(error)]
    /\ emitted' = [out EXCEPT !.error_message = createUserFriendlyMessage(error)]
    /\ setFailedCalls' = failedCalls
    /\ runError' = error
    /\ runPc' = "done"

\* a run starts on a fresh checkout of the default branch: the inputs are
\* read and validated
RunStart ==
    /\ runPc \in {"idle", "done"}
    /\ runs < MaxRuns
    /\ runs' = runs + 1
    /\ \E cfg \in Configs :
          /\ config' = cfg
          /\ IF validateConfig(cfg).kind = "ok"
             THEN /\ runPc' = "scan"
                  /\ outputs' = InitialOutputs
                  /\ emitted' = NoValue
                  /\ setFailedCalls' = 0
                  /\ runError' = NoValue
             ELSE Catch(validateConfig(cfg), InitialOutputs, 1)
    /\ lookups' = <<>>
    /\ summary' = NoValue
    /\ existingPR' = Null
    /\ scanInvocations' = 0
    /\ scanAttempt' = 0
    /\ branchName' = <<>>
    /\ forgeCalls' = <<>>
    /\ manifest' = repoManifest
    /\ lockFile' = repoLock
    /\ vcsHead' = [manifest |-> repoManifest, lockFile |-> repoLock]
    /\ backupFile' = NoFile
    /\ vcsLog' = <<>>
    /\ fmPc' = "idle"
    /\ fmUpdates' = <<>>
    /\ fmConfig' = <<>>
    /\ fmCaught' = NoValue
    /\ fmResult' = NoValue
    /\ fmTrace' = <<>>
    /\ fmPre' = [manifest |-> NoFile, lockFile |-> "absent"]
    /\ clock' = clock + 1
    /\ UNCHANGED <<prs, forgeVars>>

noChangesNever(updateSummary) == FALSE
\* !updateSummary.hasChanges
noChanges(updateSummary) == ~updateSummary.hasChanges

\* one invocation of generateUpdateSummary under retryWithBackoff, and what
\* run does with the summary
RunScan ==
    /\ runPc = "scan"
    /\ JsLessEq(JsNumber(scanAttempt), config.maxRetries)
    /\ scanInvocations' = scanInvocations + 1
    /\ \E io \in BOOLEAN :
       \E loaded \in {loadDevboxConfig(manifest, io)} :
       \E entries \in {IF loaded.kind = "ok" THEN loaded.value ELSE <<>>} :
       \E settled \in [1..Len(entries) -> ScanLookups] :
       \E outcome \in
             {IF loaded.kind = "ok"
              THEN Ok(generateUpdateSummary(checkMultiplePackagesForUpdates(
                          entries, scannerUpdateLatest(config), settled)))
              ELSE loaded} :
       \E decision \in
             {retryDecision(outcome, scanAttempt,
                            mergeConfig(DefaultMaxRetries,
                                        WithMaxRetries(config.maxRetries.n)))} :
          /\ lookups' = settled
          /\ CASE decision = "return" ->
                    /\ summary' = outcome.value
                    /\ outputs' = [outputs EXCEPT
                                      !.update_summary = outcome.value.summary]
                    /\ IF noChanges(outcome.value)
                       THEN /\ emitted' = [outputs EXCEPT
                                  !.update_summary = outcome.value.summary]
                            /\ runPc' = "done"
                       ELSE /\ runPc' = "checkExistingPR"
                            /\ UNCHANGED emitted
                    /\ UNCHANGED <<scanAttempt, setFailedCalls, runError>>
               [] decision = "throw" ->
                    /\ Catch(outcome, outputs, setFailedCalls + 1)
                    /\ UNCHANGED <<summary, scanAttempt>>
               [] OTHER ->
                    /\ scanAttempt' = scanAttempt + 1
                    /\ UNCHANGED <<summary, outputs, emitted, runPc,
                                   setFailedCalls, runError>>
    /\ UNCHANGED <<runs, config, existingPR, branchName, forgeCalls, prs, clock,
                   forgeVars, fmVars>>

\* the loop of retryWithBackoff is not entered: the throw after the loop
RunScanLoopEnd ==
    /\ runPc = "scan"
    /\ ~JsLessEq(JsNumber(scanAttempt), config.maxRetries)
    /\ Catch(UnexpectedEnd, outputs, setFailedCalls + 1)
    /\ UNCHANGED <<runs, config, lookups, summary, existingPR, scanInvocations,
                   scanAttempt, branchName, forgeCalls, prs, clock, forgeVars,
                   fmVars>>

\* checkExistingPR: the open PRs are listed and filtered
RunCheckExistingPR ==
    /\ runPc = "checkExistingPR"
    /\ \E listed \in BOOLEAN :
          LET existing == checkExistingPR(pullsList(prs), config.branchPrefix, listed)
          IN  /\ existingPR' = existing
              /\ outputs' = [outputs EXCEPT !.existing_pr_found = ~existing.isNull]
    /\ forgeCalls' = Append(forgeCalls, "checkExistingPR")
    /\ runPc' = "applyUpdates"
    /\ UNCHANGED <<runs, config, lookups, summary, emitted, setFailedCalls,
                   scanInvocations, scanAttempt, branchName, runError, prs,
                   clock, forgeVars, fmVars>>

\* run calls applyUpdates with the updates of the summary
RunApplyUpdates ==
    /\ runPc = "applyUpdates"
    /\ FmCall(summary.updates)
    /\ runPc' = "applying"
    /\ UNCHANGED <<runs, config, lookups, summary, existingPR, outputs, emitted,
                   setFailedCalls, scanInvocations, scanAttempt, branchName,
                   forgeCalls, runError, prs, clock, forgeVars>>

\* applyUpdates settled: its error goes to the catch, else changes = true
RunApplied ==
    /\ runPc = "applying"
    /\ fmPc \in {"returned", "thrown"}
    /\ IF fmPc = "thrown"
       THEN Catch(fmResult, outputs, setFailedCalls + 1)
       ELSE /\ outputs' = [outputs EXCEPT !.changes = TRUE]
            /\ runPc' = IF existingPR.isNull THEN "getOrCreateUpdateBranch"
                        ELSE "updateExistingPR"
            /\ UNCHANGED <<emitted, setFailedCalls, runError>>
    /\ UNCHANGED <<runs, config, lookups, summary, existingPR, scanInvocations,
                   scanAttempt, branchName, forgeCalls, prs, clock, forgeVars,
                   fmVars>>

\* updateExistingPR with the default strategy, then the outputs
RunUpdateExistingPR ==
    /\ runPc = "updateExistingPR"
    /\ forgeCalls' = Append(forgeCalls, "updateExistingPR")
    /\ \E up \in BOOLEAN, failure \in ForgeFailures :
          LET updatedTitle == generatePRTitle(summary)
              updatedBody ==
                  IF DefaultStrategy.preserveExistingUpdates
                         /\ existingPR.body # EmptyBody
                  THEN mergeDescriptions(existingPR.body, summary.updates,
                                         DefaultStrategy.conflictResolution)
                  ELSE formatChangeDescription(summary.updates)
              out == [outputs EXCEPT !.pr_number = Number(existingPR.number),
                                     !.pr_updated = TRUE]
          IN  IF up
              THEN /\ prs' = [prs EXCEPT ![existingPR.number] =
                                 [@ EXCEPT !.title = updatedTitle,
                                           !.body = updatedBody,
                                           !.updatedAt = clock + 1]]
                   /\ clock' = clock + 1
                   /\ outputs' = out
                   /\ emitted' = out
                   /\ runPc' = "done"
                   /\ UNCHANGED <<setFailedCalls, runError>>
              ELSE /\ Catch(Err("GitHubError", failure, 0), outputs,
                            setFailedCalls + 1)
                   /\ UNCHANGED <<prs, clock>>
    /\ UNCHANGED <<runs, config, lookups, summary, existingPR, scanInvocations,
                   scanAttempt, branchName, forgeVars, fmVars>>

\* the commit a branch of the forge points at: createRef is given the sha
\* of the base branch, and the default branch holds the repository as the
\* runs check it out
RECURSIVE TipOf(_)
TipOf(b) ==
    IF b.from = <<>> THEN [manifest |-> repoManifest, lockFile |-> repoLock]
    ELSE TipOf(CHOOSE base \in branches : base.name = b.from)

\* createBranch on the forge: the base branch "main" is read, the ref created
CanCreateBranch(name, up) ==
    /\ up
    /\ \E b \in branches : b.name = <<"m", "a", "i", "n">>
    /\ \A b \in branches : b.name # name

\* getOrCreateUpdateBranch: the computed branch when it exists, else that
\* branch created, else a branch with a unique name created
RunGetOrCreateUpdateBranch ==
    /\ runPc = "getOrCreateUpdateBranch"
    /\ \E answered \in BOOLEAN, up1 \in BOOLEAN, up2 \in BOOLEAN,
          failure \in ForgeFailures :
          LET computed == generateBranchName(config.branchPrefix,
                                             summary.updates, clock)
              unique == generateUniqueBranchName(config.branchPrefix,
                                                 summary.updates, clock)
              exists == answered /\ \E b \in branches : b.name = computed
          IN  IF exists
              THEN /\ branchName' = computed
                   /\ forgeCalls' = Append(forgeCalls, "branchExists")
                   /\ runPc' = "createUpdatePR"
                   /\ UNCHANGED <<branches, outputs, emitted, setFailedCalls,
                                  runError>>
              ELSE IF CanCreateBranch(computed, up1)
              THEN /\ branchName' = computed
                   /\ branches' = branches \cup
                                      {[name |-> computed, from |-> <<"m", "a", "i", "n">>]}
                   /\ forgeCalls' = forgeCalls \o
                          <<"branchExists", "createBranch">>
                   /\ runPc' = "createUpdatePR"
                   /\ UNCHANGED <<outputs, emitted, setFailedCalls, runError>>
              ELSE IF CanCreateBranch(unique, up2)
              THEN /\ branchName' = unique
                   /\ branches' = branches \cup
                                      {[name |-> unique, from |-> <<"m", "a", "i", "n">>]}
                   /\ forgeCalls' = forgeCalls \o
                          <<"branchExists", "createBranch", "createBranch">>
                   /\ runPc' = "createUpdatePR"
                   /\ UNCHANGED <<outputs, emitted, setFailedCalls, runError>>
              ELSE /\ Catch(Err("GitHubError", failure, 0), outputs,
                            setFailedCalls + 1)
                   /\ forgeCalls' = forgeCalls \o
                          <<"branchExists", "createBranch", "createBranch">>
                   /\ UNCHANGED <<branchName, branches>>
    /\ UNCHANGED <<runs, config, lookups, summary, existingPR, scanInvocations,
                   scanAttempt, prs, clock, defaultBranch, repoManifest,
                   repoLock, fmVars>>

\* createUpdatePR: a PR from the branch to "main", then the outputs
RunCreateUpdatePR ==
    /\ runPc = "createUpdatePR"
    /\ forgeCalls' = Append(forgeCalls, "createUpdatePR")
    /\ \E up \in BOOLEAN, failure \in ForgeFailures :
          LET accepted ==
                  /\ up
                  /\ \E b \in branches : b.name = branchName
                  /\ \E b \in branches : b.name = <<"m", "a", "i", "n">>
                  /\ \A i \in 1..Len(prs) :
                        ~(prs[i].state = "open" /\ prs[i].head = branchName
                              /\ prs[i].base = <<"m", "a", "i", "n">>)
              pr == [number |-> Len(prs) + 1, head |-> branchName,
                     base |-> <<"m", "a", "i", "n">>, title |-> generatePRTitle(summary),
                     body |-> formatChangeDescription(summary.updates),
                     state |-> "open", updatedAt |-> clock + 1,
                     openedBy |-> runs]
              out == [outputs EXCEPT !.pr_number = Number(pr.number),
                                     !.pr_updated = FALSE]
          IN  IF accepted
              THEN /\ prs' = Append(prs, pr)
                   /\ clock' = clock + 1
                   /\ outputs' = out
                   /\ emitted' = out
                   /\ runPc' = "done"
                   /\ UNCHANGED <<setFailedCalls, runError>>
              ELSE /\ Catch(Err("GitHubError", failure, 0), outputs,
                            setFailedCalls + 1)
                   /\ UNCHANGED <<prs, clock>>
    /\ UNCHANGED <<runs, config, lookups, summary, existingPR, scanInvocations,
                   scanAttempt, branchName, forgeVars, fmVars>>

RunNext ==
    \/ RunStart /\ UNCHANGED notRunVars
    \/ RunScan /\ UNCHANGED notRunVars
    \/ RunScanLoopEnd /\ UNCHANGED notRunVars
    \/ RunCheckExistingPR /\ UNCHANGED notRunVars
    \/ RunApplyUpdates /\ UNCHANGED notRunVars
    \/ CreateBackup /\ UNCHANGED <<notRunVars, runVars, forgeVars>>
    \/ ReadConfig /\ UNCHANGED <<notRunVars, runVars, forgeVars>>
    \/ WriteConfig /\ UNCHANGED <<notRunVars, runVars, forgeVars>>
    \/ RegenerateLock /\ UNCHANGED <<notRunVars, runVars, forgeVars>>
    \/ ValidateLockFile /\ UNCHANGED <<notRunVars, runVars, forgeVars>>
    \/ CommitChanges /\ UNCHANGED <<notRunVars, runVars, forgeVars>>
    \/ RestoreFromBackup /\ UNCHANGED <<notRunVars, runVars, forgeVars>>
    \/ RunApplied /\ UNCHANGED notRunVars
    \/ RunUpdateExistingPR /\ UNCHANGED notRunVars
    \/ RunGetOrCreateUpdateBranch /\ UNCHANGED notRunVars
    \/ RunCreateUpdatePR /\ UNCHANGED notRunVars

InitRun == RunIdle /\ ForgeInit /\ FmIdle /\ RetryIdle /\ CheckIdle
           /\ LookupIdle /\ ClassIdle /\ CallIdle
SpecRun == InitRun /\ [][RunNext]_vars

\* every awaited call of a run settles, and the runner starts the next run
FairSpecRun == SpecRun /\ WF_vars(RunNext)

-----------------------------------------------------------------------------
(* checkMultiplePackagesForUpdates: the lookups of one scan, concurrently *)

\* what the registry does for one package of a scan
LookupOps == [fails : 0..MaxLookupFails,
              failErr : {AxiosFailure},
              then : {Succeeds, <<"Error", {}>>},
              value : {NullData, Data(Str(V18)), Data(Str(V20))}]

\* the max-retries inputs of the runs that scan
ScanMaxRetries == {0, DefaultMaxRetries, MaxRetriesLimit}

\* attempt++ of the loop of one executeWithRetry call
attemptShared(attempts, i) == [j \in DOMAIN attempts |-> attempts[j] + 1]
attemptAfterSleep(attempts, i) == [attempts EXCEPT ![i] = @ + 1]

\* packages.map(checkForUpdates): every lookup starts with its first request
LookupInit ==
    /\ lkPackages \in Manifests
    /\ lkRegistry \in [1..Len(lkPackages) -> LookupOps]
    /\ lkAttempt = [i \in 1..Len(lkPackages) |-> 0]
    /\ lkRequests = [i \in 1..Len(lkPackages) |-> 0]
    /\ lkSleeps = [i \in 1..Len(lkPackages) |-> 0]
    /\ lkPc = [i \in 1..Len(lkPackages) |-> "request"]
    /\ lkLookup = [i \in 1..Len(lkPackages) |-> NoValue]
    /\ lkOrder = <<>>
    /\ lkReturned = NoValue
    /\ lkMaxRetries \in ScanMaxRetries

\* one pass of the retry loop of lookup i: the request, and what the loop
\* does with its outcome
LookupRequest(i) ==
    /\ lkPc[i] = "request"
    /\ lkRequests' = [lkRequests EXCEPT ![i] = @ + 1]
    /\ \E outcome \in {OpOutcome(lkRegistry[i], lkRequests[i] + 1)} :
       \E decision \in
             {retryDecision(outcome, lkAttempt[i],
                            mergeConfig(DefaultMaxRetries,
                                        WithMaxRetries(ApiMaxRetries)))} :
          IF decision = "sleep"
          THEN /\ lkPc' = [lkPc EXCEPT ![i] = "sleeping"]
               /\ lkSleeps' = [lkSleeps EXCEPT ![i] = @ + 1]
               /\ UNCHANGED <<lkLookup, lkOrder>>
          ELSE /\ lkPc' = [lkPc EXCEPT ![i] = "settled"]
               /\ lkLookup' = [lkLookup EXCEPT ![i] = getLatestVersion(outcome)]
               /\ lkOrder' = Append(lkOrder, i)
               /\ UNCHANGED lkSleeps
    /\ UNCHANGED <<lkPackages, lkRegistry, lkAttempt, lkReturned, lkMaxRetries>>

\* the timer of lookup i's sleep fires
LookupWake(i) ==
    /\ lkPc[i] = "sleeping"
    /\ lkPc' = [lkPc EXCEPT ![i] = "request"]
    /\ lkAttempt' = attemptAfterSleep(lkAttempt, i)
    /\ UNCHANGED <<lkPackages, lkRegistry, lkRequests, lkSleeps, lkLookup,
                   lkOrder, lkReturned, lkMaxRetries>>

\* Promise.allSettled resolved: the fulfilled results are returned
LookupsReturn ==
    /\ lkReturned = NoValue
    /\ \A i \in DOMAIN lkPc : lkPc[i] = "settled"
    /\ lkReturned' = Ok(checkMultiplePackagesForUpdates(
                            lkPackages, scannerUpdateLatest(config), lkLookup))
    /\ UNCHANGED <<lkPackages, lkRegistry, lkAttempt, lkRequests, lkSleeps,
                   lkPc, lkLookup, lkOrder, lkMaxRetries>>

LookupStep == \E i \in DOMAIN lkPc : LookupRequest(i)
LookupTimer == \E i \in DOMAIN lkPc : LookupWake(i)

LookupNext ==
    \/ LookupStep /\ UNCHANGED notLookupVars
    \/ LookupTimer /\ UNCHANGED notLookupVars
    \/ LookupsReturn /\ UNCHANGED notLookupVars

InitLookups == LookupInit /\ RetryIdle /\ CheckIdle /\ FmIdle /\ RunIdle
               /\ ForgeIdle /\ ClassIdle /\ CallIdle
SpecLookups == InitLookups /\ [][LookupNext]_vars

-----------------------------------------------------------------------------
(* handleError on one thrown value *)

\* the classes of thrown values: the typed errors, a plain Error, a value
\* that is no Error
ErrorClasses == {"DevboxError", "NetworkError", "ValidationError",
                 "GitHubError", "Error", "NonError"}

\* keywords a message may hold, one or two per pattern list
MessageWords == {"ECONNRESET", "ENOENT", "permission denied", "devbox failed",
                 "missing token", "rate limit", "timeout"}
Messages == {m \in SUBSET MessageWords : Cardinality(m) <= MaxWords}

\* what FileManager throws when the copy or the write under it failed: a
\* DevboxError with its code, the message of the cause after a fixed prefix
FileManagerFailure(code, cause) == [DevboxErr(code) EXCEPT !.msg = cause.msg]
FileManagerCodes == {"BACKUP_ERROR", "RESTORE_ERROR", "FILE_WRITE_ERROR"}
FileSystemCauses == {Err("Error", {"ENOENT", "no such file"}, 0),
                     Err("Error", {"EACCES", "permission denied"}, 0),
                     Err("Error", {"ENOSPC"}, 0)}

ThrownValues ==
    {Err(cls, m, 0) : cls \in ErrorClasses, m \in Messages}
        \cup {FileManagerFailure(code, cause) :
                 code \in FileManagerCodes, cause \in FileSystemCauses}

ClassInit ==
    /\ thrown \in ThrownValues
    /\ errorInfo = NoValue

\* handleError(error, context): the ErrorInfo of the classification
HandleError ==
    /\ errorInfo = NoValue
    /\ errorInfo' = classifyError(thrown)
    /\ UNCHANGED thrown

ClassNext == HandleError /\ UNCHANGED notClassVars

InitClassify == ClassInit /\ RetryIdle /\ CheckIdle /\ FmIdle /\ RunIdle
                /\ ForgeIdle /\ LookupIdle /\ CallIdle
SpecClassify == InitClassify /\ [][ClassNext]_vars

-----------------------------------------------------------------------------
(* PullRequestManager.generateBranchName on one list of updates *)

\* generateBranchName of a manager constructed with singlePackageMode
generateBranchNameIn(singlePackageMode, prefix, updates, now) ==
    IF singlePackageMode THEN generateBranchName(prefix, updates, now)
    ELSE generateMultiPackageBranchName(prefix)

\* package names and versions of updates: plain, with a leading "@", with a
\* host and a path, with capitals
BranchedNames == {<<"b", "i", "o", "m", "e">>, <<"@", "b", "i", "o", "m", "e">>, <<"g", "o", ".", "d", "/", "t">>, <<"D", "t">>}
BranchedVersions == {<<"2", ".", "3", ".", "9">>, <<"1", ".", "0", "-", "T">>, LATEST}
BranchedUpdates ==
    {Candidate(name, V18, version, TRUE) :
        name \in BranchedNames, version \in BranchedVersions}

RECURSIVE ListsUpTo(_, _)
\* the sequences over S of length at most n
ListsUpTo(S, n) ==
    IF n = 0 THEN {<<>>}
    ELSE ListsUpTo(S, n - 1)
             \cup {Append(l, x) : l \in {m \in ListsUpTo(S, n - 1) : Len(m) = n - 1},
                                  x \in S}

BranchInit ==
    /\ callArgs \in [fn : {"generateBranchName"}, prefix : {<<"d", "e", "v", "b", "o", "x">>},
                     singlePackageMode : BOOLEAN,
                     updates : ListsUpTo(BranchedUpdates, MaxUpdates)]
    /\ callResult = NoValue

GenerateBranchName ==
    /\ callResult = NoValue
    /\ callResult' = Ok(generateBranchNameIn(callArgs.singlePackageMode,
                                            callArgs.prefix, callArgs.updates, 1))
    /\ UNCHANGED callArgs

BranchNext == GenerateBranchName /\ UNCHANGED notCallVars

InitBranch == BranchInit /\ RetryIdle /\ CheckIdle /\ FmIdle /\ RunIdle
              /\ ForgeIdle /\ LookupIdle /\ ClassIdle
SpecBranch == InitBranch /\ [][BranchNext]_vars

-----------------------------------------------------------------------------
(* compareVersions on one pair of version strings, both ways *)

\* version strings: two and three numbers, prerelease tags, build metadata,
\* leading white space, no number at all, a trailing "-", blank, empty
VersionStrings ==
    {<<"1", ".", "0">>, <<"1", ".", "0", ".", "0">>, <<" ", "1", ".", "0">>, <<"1", ".", "0", ".", "0", "-", "r", "c">>, <<"1", ".", "0", ".", "0", "-", "b", "e", "t", "a">>, <<"1", ".", "0", ".", "0", "-", "r", "c", "+", "a">>,
     <<"1", ".", "0", ".", "0", "-", "r", "c", "+", "b">>, <<"1", ".", "0", ".", "0", "+", "a">>, <<"2", ".", "0">>, <<"1", ".", "1", "0">>, <<"r", "c">>, <<"1", ".", "0", ".", "0", ".", "0", "-">>, <<" ">>, <<>>}

CompareInit ==
    /\ callArgs \in [fn : {"compareVersions"}, a : VersionStrings,
                     b : VersionStrings]
    /\ callResult = NoValue

\* compareVersions(a, b), compareVersions(b, a) and compareVersions(a, a)
CompareVersions ==
    /\ callResult = NoValue
    /\ callResult' = [ab |-> compareVersions(callArgs.a, callArgs.b),
                      ba |-> compareVersions(callArgs.b, callArgs.a),
                      aa |-> compareVersions(callArgs.a, callArgs.a)]
    /\ UNCHANGED callArgs

CompareNext == CompareVersions /\ UNCHANGED notCallVars

InitCompare == CompareInit /\ RetryIdle /\ CheckIdle /\ FmIdle /\ RunIdle
               /\ ForgeIdle /\ LookupIdle /\ ClassIdle
SpecCompare == InitCompare /\ [][CompareNext]_vars

-----------------------------------------------------------------------------
(* parsePackageSpec and createPackageSpec on one manifest entry *)

\* the characters of the entries: of a name, of a version, the separators
SpecChars == {"n", "1", "@", "/", " "}
ManifestEntries == ListsUpTo(SpecChars, MaxSpecLen)

ParseInit ==
    /\ callArgs \in [fn : {"parsePackageSpec"}, packageSpec : ManifestEntries]
    /\ callResult = NoValue

\* the entry is parsed and the spec is built again from name and version
ParseAndCreate ==
    /\ callResult = NoValue
    /\ \E parsed \in {parsePackageSpec(callArgs.packageSpec)} :
          callResult' = [parsed |-> parsed,
                         created |-> createPackageSpec(parsed.name, parsed.version)]
    /\ UNCHANGED callArgs

ParseNext == ParseAndCreate /\ UNCHANGED notCallVars

InitParse == ParseInit /\ RetryIdle /\ CheckIdle /\ FmIdle /\ RunIdle
             /\ ForgeIdle /\ LookupIdle /\ ClassIdle
SpecParse == InitParse /\ [][ParseNext]_vars

-----------------------------------------------------------------------------
(* FileManager.updatePackages on one configuration object *)

\* a DevboxConfig: the packages and the other sections, which updatePackages
\* copies with JSON.parse(JSON.stringify(config))
DevboxConfigs ==
    [packages : Manifests \cup {<<<<"@", "n", "/", "g", "o", "@", "1", ".", "2", "1">>, go>>},
     shell : {"absent", "init_hook"}]

\* updatePackages on the config object: the copy with its packages mapped
updatePackagesOf(devboxConfig, updates) ==
    [devboxConfig EXCEPT !.packages = updatePackages(devboxConfig.packages, updates)]

UpdateInit ==
    /\ callArgs \in [fn : {"updatePackages"}, config : DevboxConfigs,
                     updates : ListsUpTo(Candidates \cup {Candidate(<<"@", "n", "/", "g", "o">>, V121, V20, TRUE)},
                                         MaxUpdates)]
    /\ callResult = NoValue

\* updatePackages(config, updates): the arguments are left as they are
UpdatePackages ==
    /\ callResult = NoValue
    /\ callResult' = Ok(updatePackagesOf(callArgs.config, callArgs.updates))
    /\ UNCHANGED callArgs

UpdateNext == UpdatePackages /\ UNCHANGED notCallVars

InitUpdate == UpdateInit /\ RetryIdle /\ CheckIdle /\ FmIdle /\ RunIdle
              /\ ForgeIdle /\ LookupIdle /\ ClassIdle
SpecUpdate == InitUpdate /\ [][UpdateNext]_vars

-----------------------------------------------------------------------------
(* checkExistingPR on the pull requests of a repository *)

PullRequest(number, head, title, state, updatedAt) ==
    [number |-> number, head |-> head, base |-> <<"m", "a", "i", "n">>, title |-> title,
     body |-> <<>>, state |-> state, updatedAt |-> updatedAt, openedBy |-> 0]

\* pull requests of other authors, of the action in both branch formats, and
\* one that was closed
ListedPulls ==
    {PullRequest(0, head, title, "open", updatedAt) :
        head \in {<<"d", "e", "v", "b", "o", "x", "/", "g", "o">>, <<"d", "e", "v", "b", "o", "x", "-", "g", "o">>, <<"d", "e", "v", "b", "o", "x", "g", "o">>},
        title \in {<<"D", "e", "v", "b", "o", "x", " ", "u", "p", "D", "a", "T", "e">>, <<"u", "p", "d", "a", "t", "e">>},
        updatedAt \in {1, 2}}
    \cup {PullRequest(0, <<"d", "e", "v", "b", "o", "x", "/", "g", "o">>, <<"u", "p", "d", "a", "t", "e">>, "closed", 3)}

\* the open pull requests listed before the ones drawn: newer ones, not of
\* the action
RECURSIVE NewerPulls(_)
NewerPulls(n) ==
    IF n = 0 THEN <<>>
    ELSE NewerPulls(n - 1) \o <<PullRequest(n, <<"f", "i", "x">>, <<"f", "i", "x">>, "open", 0)>>

ExistingInit ==
    /\ callArgs \in [fn : {"checkExistingPR"}, prefix : {<<"d", "e", "v", "b", "o", "x">>},
                     newer : {0, PerPage},
                     pulls : ListsUpTo(ListedPulls, MaxPulls),
                     listed : BOOLEAN]
    /\ callResult = NoValue

\* checkExistingPR(): the listing, the filter, the most recent one
CheckExistingPR ==
    /\ callResult = NoValue
    /\ \E pulls \in {NewerPulls(callArgs.newer) \o callArgs.pulls} :
          callResult' = Ok(checkExistingPR(pullsList(pulls), callArgs.prefix,
                                           callArgs.listed))
    /\ UNCHANGED callArgs

ExistingNext == CheckExistingPR /\ UNCHANGED notCallVars

InitExisting == ExistingInit /\ RetryIdle /\ CheckIdle /\ FmIdle /\ RunIdle
                /\ ForgeIdle /\ LookupIdle /\ ClassIdle
SpecExisting == InitExisting /\ [][ExistingNext]_vars

-----------------------------------------------------------------------------
(* updateExistingPR on one pull request *)

\* bodies of the pull request found: none, one written by hand, one of the
\* action, one the action has merged into before
ExistingBodies ==
    {EmptyBody,
     <<[block |-> "text", updates |-> <<>>]>>,
     formatChangeDescription(<<Candidate(nodejs, V18, V20, TRUE)>>),
     mergeDescriptions(formatChangeDescription(<<Candidate(nodejs, V18, V20, TRUE)>>),
                       <<Candidate(nodejs, V18, V20, TRUE)>>, "merge")}

UpdatePRInit ==
    /\ callArgs \in [fn : {"updateExistingPR"},
                     pr : [number : {1}, title : {<<"U", "p", "d", "a", "t", "e", " ", "d", "e", "v", "b", "o", "x">>},
                           body : ExistingBodies],
                     summary : {generateUpdateSummary(updates) :
                                   updates \in CandidateLists},
                     strategy : MergeStrategies]
    /\ callResult = NoValue

\* updateExistingPR(pr, summary, strategy): the request is sent, the forge
\* accepts it or the call throws a GitHubError
UpdateExistingPR ==
    /\ callResult = NoValue
    /\ \E up \in BOOLEAN :
          callResult' = [sent |-> updateExistingPR(callArgs.pr, callArgs.summary,
                                                   callArgs.strategy),
                         settled |-> IF up THEN Ok(callArgs.pr.number)
                                     ELSE Err("GitHubError", {}, 0)]
    /\ UNCHANGED callArgs

UpdatePRNext == UpdateExistingPR /\ UNCHANGED notCallVars

InitUpdatePR == UpdatePRInit /\ RetryIdle /\ CheckIdle /\ FmIdle /\ RunIdle
                /\ ForgeIdle /\ LookupIdle /\ ClassIdle
SpecUpdatePR == InitUpdatePR /\ [][UpdatePRNext]_vars

-----------------------------------------------------------------------------
(* executeWithRetry with its backoff delays *)

\* DEFAULT_RETRY_CONFIG with and without jitter, the configuration of the
\* tests, and one with the multiplier 1.5 and a cap that is reached
RetryConfigs ==
    {[maxRetries |-> m, baseDelay |-> c[1], maxDelay |-> c[2],
      multiplier |-> c[3], jitter |-> c[4]] :
        m \in 0..MaxBackoffRetries,
        c \in {<<1000, 10000, Ratio(2, 1), TRUE>>,
               <<1000, 10000, Ratio(2, 1), FALSE>>,
               <<10, 100, Ratio(2, 1), FALSE>>,
               <<10, 30, Ratio(3, 2), FALSE>>}}

BackoffInit ==
    /\ callArgs \in [fn : {"executeWithRetry"},
                     operation : {o \in Operations : o.fails <= MaxBackoffRetries + 1},
                     config : RetryConfigs]
    /\ callResult = NoValue

\* executeWithRetry(operation, context, config) from the call to its
\* settling: what it settled with, how often it invoked the operation, and
\* the delays it slept
ExecuteWithRetry ==
    /\ callResult = NoValue
    /\ \E random \in IF callArgs.config.jitter THEN [0..2 -> RandomDraws]
                     ELSE {[i \in 0..2 |-> Ratio(500, 1000)]} :
       \E run \in {retryLoop(callArgs.operation, callArgs.config.maxRetries, 0, 0)} :
       \E slept \in {retrySleeps(callArgs.operation, callArgs.config.maxRetries, 0, 0)} :
          callResult' = [result |-> run.result,
                         invocations |-> run.invocations,
                         delays |-> [i \in 1..Len(slept) |->
                                        calculateDelay(slept[i], callArgs.config,
                                                       random[slept[i] % 3])]]
    /\ UNCHANGED callArgs

BackoffNext == ExecuteWithRetry /\ UNCHANGED notCallVars

InitBackoff == BackoffInit /\ RetryIdle /\ CheckIdle /\ FmIdle /\ RunIdle
               /\ ForgeIdle /\ LookupIdle /\ ClassIdle
SpecBackoff == InitBackoff /\ [][BackoffNext]_vars

-----------------------------------------------------------------------------
(* Properties of the retry engine *)

\* the loop, run step by step, settles as the function says
RetryStepsAgree ==
    RetryDone =>
        /\ rtResult = executeWithRetry(op, instMaxRetries, customConfig).result
        /\ invocations =
               executeWithRetry(op, instMaxRetries, customConfig).invocations

\* the retry bound a call is entitled to: the per-call maxRetries when one is
\* given, else the instance's
BoundInForce ==
    IF customConfig.given THEN customConfig.maxRetries ELSE instMaxRetries

\* C2: an operation that fails k <= maxRetries times with retryable errors and
\* then succeeds returns the success value after exactly k+1 invocations; an
\* operation whose failure is classified non-retryable is not invoked again
\* (exactly once when it is the first failure) and that error is rethrown,
\* whatever retry budget remains.
C2_RetryThenSettle ==
    /\ (RetryDone /\ op.then = Succeeds /\ op.fails <= BoundInForce)
          => /\ rtPc = "returned"
             /\ rtResult = Ok(op.value)
             /\ invocations = op.fails + 1
    /\ (RetryDone /\ op.then \in FatalKinds /\ op.fails <= BoundInForce)
          => /\ rtPc = "thrown"
             /\ rtResult = Err(op.then[1], op.then[2], op.fails + 1)
             /\ invocations = op.fails + 1
    /\ (rtPc # "idle" /\ op.fails <= BoundInForce)
          => invocations <= op.fails + 1

\* two retryable failures, then success with maxRetries = 2: three invocations
C2_Witness ==
    /\ rtPc = "returned"
    /\ op.fails = 2
    /\ BoundInForce = 2
    /\ invocations = 3

\* a first failure that is not retryable, with the whole budget left
C2_WitnessFatal ==
    /\ rtPc = "thrown"
    /\ op.fails = 0
    /\ op.then \in FatalKinds
    /\ BoundInForce = MaxRetriesLimit
    /\ invocations = 1

C3_Bounded ==
    /\ rtPc # "idle" => invocations <= BoundInForce + 1
    /\ (RetryDone /\ op.fails > BoundInForce)
          => /\ rtPc = "thrown"
             /\ invocations = BoundInForce + 1
             /\ sleeps = BoundInForce
             /\ rtResult = Err(op.failErr[1], op.failErr[2],
                               BoundInForce + 1)

\* C3: executeWithRetry terminates; for maxRetries in 0..10 (the per-call
\* override, when given, is the bound) an operation failing with a retryable
\* error on every attempt is invoked exactly maxRetries+1 times and the error
\* of the last attempt is rethrown.
C3_RetryTerminates == []C3_Bounded /\ <>RetryDone

\* the per-call override 10 over an instance bound of 3: eleven invocations
C3_Witness ==
    /\ rtPc = "thrown"
    /\ instMaxRetries = DefaultMaxRetries
    /\ customConfig = WithMaxRetries(MaxRetriesLimit)
    /\ op.fails > MaxRetriesLimit
    /\ invocations = MaxRetriesLimit + 1

-----------------------------------------------------------------------------
(* Properties of the update check *)

\* the registry request ends in a transport failure, however often retried
TransportFails ==
    registry.fails > ApiMaxRetries \/ registry.then # Succeeds
\* the registry answered, but with nothing that carries a version
NoVersionField ==
    ~TransportFails /\ ~Truthy(registry.value.version)
\* the registry's version, or the pinned one, cannot be parsed
Unparsable ==
    /\ ~TransportFails /\ ~NoVersionField
    /\ Truthy(pkg.version)
    /\ pkg.version.str # registry.value.version.str
    /\ \/ trim(pkg.version.str) = <<>>
       \/ trim(registry.value.version.str) = <<>>
CheckFails ==
    TransportFails \/ NoVersionField \/ (Unparsable /\ pkg.version # Str(LATEST))
PinnedOrUnknown ==
    IF pkg.version.defined /\ pkg.version.str # <<>> THEN pkg.version.str
    ELSE UNKNOWN

C9_WitnessUnparsable ==
    /\ ckPc = "done"
    /\ Unparsable
    /\ pkg.version = Str(<<"1", "8", ".", "0", ".", "0">>)
    /\ ckResult.kind = "ok"
    /\ ckResult.value.latestVersion = LOOKUP_FAILED

\* C10: for a package pinned to exactly "latest" the candidate's
\* currentVersion is "latest"; with updateLatest off updateAvailable is false
\* whatever the registry reports; with updateLatest on updateAvailable is
\* true exactly when the lookup succeeds; no version is compared.
C10_LatestPin ==
    (ckPc = "done" /\ pkg.version = Str(LATEST)) =>
        /\ ckResult.kind = "ok"
        /\ ckResult.value.currentVersion = LATEST
        /\ ~updateLatest => ckResult.value.updateAvailable = FALSE
        /\ updateLatest =>
               (ckResult.value.updateAvailable
                    <=> ~(TransportFails \/ NoVersionField))
        /\ ~(TransportFails \/ NoVersionField) =>
               ckResult.value.latestVersion = registry.value.version.str

\* "latest" with updateLatest off while the registry reports 20.10.0
C10_Witness ==
    /\ ckPc = "done"
    /\ pkg.version = Str(LATEST)
    /\ ~updateLatest
    /\ ckLookup = Ok(<<"2", "0", ".", "1", "0", ".", "0">>)
    /\ ckResult.value.updateAvailable = FALSE
    /\ ckResult.value.currentVersion = LATEST

\* "latest" with updateLatest on while the registry answers a blank version
C10_WitnessBlank ==
    /\ ckPc = "done"
    /\ pkg.version = Str(LATEST)
    /\ updateLatest
    /\ ckLookup = Ok(<<" ">>)
    /\ ckResult.value.updateAvailable = TRUE

-----------------------------------------------------------------------------
(* Properties of the file mutator *)

BackupTaken ==
    \E i \in 1..Len(fmTrace) : fmTrace[i] = Step("createBackup", TRUE)

\* what each step after the backup fails with
FailuresOf(step) ==
    CASE step = "readConfig" ->
            {DevboxErr("FILE_NOT_FOUND"), Err("Error", {"EACCES"}, 0),
             Err("ValidationError", {}, 0)}
      [] step = "writeConfig" ->
            {DevboxErr("FILE_WRITE_ERROR"), Err("ValidationError", {}, 0)}
      [] step = "regenerateLock" ->
            {DevboxErr("DEVBOX_NOT_FOUND"), DevboxErr("DEVBOX_COMMAND_FAILED"),
             DevboxErr("LOCK_GENERATION_FAILED")}
      [] step = "validateLockFile" -> {DevboxErr("INVALID_LOCK_FILE")}
      [] step = "commitChanges" -> {DevboxErr("GIT_COMMIT_FAILED")}
      [] OTHER -> {}

\* C4: when a step of applyUpdates after the backup fails (manifest read or
\* write, lock regeneration, lock validation, commit), no further step is
\* taken but a restore of the backup, after which the caller receives that
\* step's failure, also when the restore failed; when the restore succeeded
\* the manifest is what it was when applyUpdates was called.
C4_RestoreThenOriginalError ==
    LET n == Len(fmTrace)
    IN  /\ (fmPc = "thrown" /\ BackupTaken) =>
              /\ n >= 3
              /\ fmTrace[n].step = "restoreFromBackup"
              /\ ~fmTrace[n-1].ok
              /\ fmResult \in FailuresOf(fmTrace[n-1].step)
              /\ \A i \in 1..(n-2) : fmTrace[i].ok
              /\ fmTrace[n].ok => manifest = fmPre.manifest
        /\ \A i \in 1..n :
              (~fmTrace[i].ok /\ fmTrace[i].step # "restoreFromBackup"
                   /\ fmTrace[i].step # "createBackup")
                  => /\ fmPc \in {"restoreFromBackup", "thrown"}
                     /\ i >= n - 1
        /\ fmPc = "returned" => \A i \in 1..n : fmTrace[i].ok

\* the manifest write tore the file, the restore put the manifest back
C4_Witness ==
    /\ fmPc = "thrown"
    /\ fmTrace = <<Step("createBackup", TRUE), Step("readConfig", TRUE),
                   Step("writeConfig", FALSE), Step("restoreFromBackup", TRUE)>>
    /\ fmResult = DevboxErr("FILE_WRITE_ERROR")
    /\ backupFile.state = "json"
    /\ manifest = fmPre.manifest

\* the commit failed after the manifest was rewritten, and so did the restore
C4_WitnessRestoreFails ==
    /\ fmPc = "thrown"
    /\ Len(fmTrace) = 7
    /\ fmTrace[6] = Step("commitChanges", FALSE)
    /\ fmTrace[7] = Step("restoreFromBackup", FALSE)
    /\ fmResult = DevboxErr("GIT_COMMIT_FAILED")
    /\ manifest # fmPre.manifest

\* C5: applyUpdates on a list without a candidate that has updateAvailable
\* (the empty list, lookup-failed candidates, already-current candidates)
\* throws the "no valid updates" error and has no side effect: manifest and
\* lock are as before, no backup exists, no operation on files, the lock
\* regenerator or the repository was performed.
C5_NoValidUpdatesNoEffect ==
    (fmPc # "idle" /\ \A i \in 1..Len(fmUpdates) : ~fmUpdates[i].updateAvailable)
        => /\ fmPc = "thrown"
           /\ fmResult = DevboxErr("NO_UPDATES")
           /\ manifest = fmPre.manifest
           /\ lockFile = fmPre.lockFile
           /\ backupFile = NoFile
           /\ fmTrace = <<>>
           /\ vcsLog = <<>>
           /\ vcsHead = fmPre

\* a lookup-failed and an already-current candidate on a valid manifest
C5_Witness ==
    /\ fmPc = "thrown"
    /\ fmUpdates = <<Candidate(nodejs, V18, LOOKUP_FAILED, FALSE),
                     Candidate(nodejs, V20, V20, FALSE)>>
    /\ manifest.state = "json"
    /\ manifest.form = "authored"
    /\ fmResult = DevboxErr("NO_UPDATES")

\* the empty list
C5_WitnessEmpty ==
    /\ fmPc = "thrown"
    /\ fmUpdates = <<>>
    /\ fmResult = DevboxErr("NO_UPDATES")

-----------------------------------------------------------------------------
(* Properties of the run *)

OpenUpdatePRs == {i \in 1..Len(prs) : prs[i].state = "open"}

\* C1: over any sequence of runs on one repository, while the update PR of
\* an earlier run is open a later run that finds updates creates no second
\* PR: at most one open update PR exists at any time.
C1_NoDuplicatePR == Cardinality(OpenUpdatePRs) <= 1

\* the scan of the current run returned a summary without an update
ScanFoundNothing == summary # NoValue /\ summary.totalUpdates = 0

\* C6: a run whose scan finds zero updates ends as a success: setFailed is
\* not called, the outputs are emitted with changes = false and the scan's
\* summary, and the run lists no PRs, writes no manifest, regenerates no lock,
\* commits nothing and creates neither a branch nor a PR.
C6_ZeroUpdatesIsSuccess ==
    ScanFoundNothing
        => /\ runPc = "done"
           /\ setFailedCalls = 0
           /\ runError = NoValue
           /\ emitted = [InitialOutputs EXCEPT !.update_summary = summary.summary]
           /\ ~emitted.changes
           /\ forgeCalls = <<>>
           /\ existingPR = Null
           /\ \A i \in 1..Len(prs) : prs[i].openedBy # runs
           /\ fmPc = "idle"
           /\ fmTrace = <<>>
           /\ backupFile = NoFile
           /\ manifest = repoManifest
           /\ lockFile = repoLock
           /\ vcsLog = <<>>

\* every lookup of a two-entry manifest answered, nothing newer: the run is
\* over with the "up to date" summary
C6_Witness ==
    /\ runPc = "done"
    /\ ScanFoundNothing
    /\ repoManifest.state = "json"
    /\ Len(repoManifest.packages) = 2
    /\ \A i \in 1..Len(lookups) : lookups[i] = Ok(V18)
    /\ emitted # NoValue
    /\ emitted.update_summary.headline = "All packages are up to date."

\* a second run (a PR of the first run is open) finds nothing
C6_WitnessLaterRun ==
    /\ runPc = "done"
    /\ ScanFoundNothing
    /\ runs = 2
    /\ Len(prs) = 1

\* the manifest of the checkout cannot be loaded by the scanner
ManifestUnloadable ==
    ~(repoManifest.state = "json" /\ validateDevboxConfig(repoManifest.packages))

\* the run got its inputs, invoked the scan, and the scan threw
ScanFailed ==
    /\ runs > 0
    /\ validateConfig(config).kind = "ok"
    /\ scanInvocations > 0
    /\ runPc = "done"
    /\ summary = NoValue

\* C7: when the scan fails as a whole (the manifest is missing, unreadable,
\* no JSON or not a valid configuration) the run ends as failed before any
\* mutation: no backup, no manifest write, no lock regeneration, no commit
\* and no forge call happened in that run, and the scan was invoked once.
C7_ScanFailureAborts ==
    /\ ScanFailed
          => /\ setFailedCalls = 1
             /\ scanInvocations = 1
             /\ runError = Err("ValidationError", {}, 0)
             /\ emitted # NoValue
             /\ emitted.error_message.defined
             /\ ~emitted.changes
             /\ forgeCalls = <<>>
             /\ \A i \in 1..Len(prs) : prs[i].openedBy # runs
             /\ fmPc = "idle"
             /\ fmTrace = <<>>
             /\ backupFile = NoFile
             /\ manifest = repoManifest
             /\ lockFile = repoLock
             /\ vcsLog = <<>>
    /\ (runs > 0 /\ validateConfig(config).kind = "ok" /\ ManifestUnloadable)
          => /\ runPc \in {"scan", "done"}
             /\ scanInvocations <= 1
             /\ summary = NoValue
             /\ (runPc = "done" => setFailedCalls = 1)

\* the manifest is no JSON: one scan, the run failed, maxRetries was 3
C7_Witness ==
    /\ ScanFailed
    /\ repoManifest = TornFile
    /\ config.maxRetries = JsNumber(DefaultMaxRetries)
    /\ scanInvocations = 1
    /\ setFailedCalls = 1

\* a valid manifest that could not be read
C7_WitnessUnreadable ==
    /\ ScanFailed
    /\ ~ManifestUnloadable
    /\ scanInvocations = 1

\* the candidate the scan computes for entry i of the checkout's manifest
ScannedCandidate(i) ==
    checkForUpdates(parsePackageSpec(repoManifest.packages[i]),
                    scannerUpdateLatest(config), lookups[i]).value

\* the lookup of entry i succeeded and reported a newer version
ReportedNewer(i) ==
    lookups[i].kind = "ok" /\ ScannedCandidate(i).updateAvailable

\* the entries in the order of the manifest that satisfy ReportedNewer
RECURSIVE ReportedUpTo(_)
ReportedUpTo(n) ==
    IF n = 0 THEN <<>>
    ELSE IF ReportedNewer(n)
         THEN Append(ReportedUpTo(n - 1), ScannedCandidate(n))
         ELSE ReportedUpTo(n - 1)

\* C8: when the lookup fails for some packages and succeeds for others the
\* run proceeds, and the update summary and the manifest entries rewritten
\* are exactly the packages whose lookup succeeded and reported a newer
\* version: no package whose lookup failed is rewritten or listed.
C8_PartialLookupFailures ==
    /\ (summary # NoValue)
          => summary.updates = ReportedUpTo(Len(repoManifest.packages))
    /\ (summary # NoValue /\ fmPc = "returned")
          => \A i \in 1..Len(repoManifest.packages) :
                (manifest.packages[i] # repoManifest.packages[i])
                    <=> ReportedNewer(i)

\* the statement of C8 on the manifests that list no package name twice
DistinctNames ==
    \A i, j \in 1..Len(repoManifest.packages) :
        i # j => parsePackageSpec(repoManifest.packages[i]).name
                     # parsePackageSpec(repoManifest.packages[j]).name

C8_OnDistinctNames == DistinctNames => C8_PartialLookupFailures

\* entry i of the checkout's manifest is pinned to "latest" and the registry
\* answered its lookup in the scan of this run
LatestPinLookedUp(i) ==
    /\ parsePackageSpec(repoManifest.packages[i]).version = Str(LATEST)
    /\ i \in DOMAIN lookups
    /\ lookups[i].kind = "ok"

\* the scan of this run returned on a manifest with such an entry
ScannedLatestPin ==
    /\ summary # NoValue
    /\ \E i \in 1..Len(repoManifest.packages) : LatestPinLookedUp(i)

\* C11: end to end, a run with update-latest = true on a manifest with an
\* entry pinned to "latest" whose lookup succeeds regenerates the lock and
\* leaves that entry of devbox.json as it is; with update-latest = false the
\* entry gives no update and, without another update, no lock regeneration.
C11_UpdateLatestEndToEnd ==
    /\ (ScannedLatestPin /\ config.updateLatest
            /\ runPc = "done" /\ runError = NoValue)
          => /\ lockFile = "regenerated"
             /\ \A i \in 1..Len(repoManifest.packages) :
                   LatestPinLookedUp(i)
                       => manifest.packages[i] = repoManifest.packages[i]
    /\ (ScannedLatestPin /\ ~config.updateLatest)
          => /\ \A k \in 1..Len(summary.updates) :
                   summary.updates[k].currentVersion # LATEST
             /\ (summary.totalUpdates = 0 => lockFile = repoLock)

-----------------------------------------------------------------------------
(* Properties of the concurrent lookups *)

\* the candidate checkForUpdates computes for package i from its own lookup
OwnCandidate(i) ==
    checkForUpdates(parsePackageSpec(lkPackages[i]),
                    scannerUpdateLatest(config), lkLookup[i]).value

\* C12: checkMultiplePackagesForUpdates returns exactly one candidate per
\* input package, at the index of its package, in every interleaving and
\* completion order of the lookups and for every combination of lookups
\* that succeed and fail.
C12_OneCandidatePerPackage ==
    lkReturned # NoValue
        => /\ Len(lkReturned.value) = Len(lkPackages)
           /\ \A i \in 1..Len(lkPackages) :
                 /\ lkReturned.value[i].packageName
                        = parsePackageSpec(lkPackages[i]).name
                 /\ lkReturned.value[i] = OwnCandidate(i)

\* the second lookup completed first; the first failed after its retries
C12_Witness ==
    /\ lkReturned # NoValue
    /\ lkOrder = <<2, 1>>
    /\ lkLookup[1].kind = "error"
    /\ lkLookup[2].kind = "ok"
    /\ lkReturned.value[1].latestVersion = LOOKUP_FAILED
    /\ lkReturned.value[2].latestVersion = V20

\* C13: concurrent lookups do not interfere: the attempt counter, the sleeps
\* and the result of a lookup follow from the registry outcomes of its own
\* package alone, so the failures and retries of one package change neither
\* the attempts nor the candidate of another.
C13_LookupsIndependent ==
    \A i \in DOMAIN lkPc :
        /\ lkAttempt[i] = lkSleeps[i] - (IF lkPc[i] = "sleeping" THEN 1 ELSE 0)
        /\ lkRequests[i] = lkAttempt[i] + (IF lkPc[i] = "request" THEN 0 ELSE 1)
        /\ lkPc[i] = "settled"
              => /\ lkRequests[i] = retryNetworkRequest(lkRegistry[i]).invocations
                 /\ lkLookup[i]
                        = getLatestVersion(retryNetworkRequest(lkRegistry[i]).result)
        /\ lkReturned # NoValue
              => lkReturned.value[i]
                     = checkForUpdates(
                           parsePackageSpec(lkPackages[i]),
                           scannerUpdateLatest(config),
                           getLatestVersion(
                               retryNetworkRequest(lkRegistry[i]).result)).value

\* one lookup used up its retries while the other was answered at once
C13_Witness ==
    /\ lkReturned # NoValue
    /\ Len(lkPackages) = 2
    /\ lkRequests = <<ApiMaxRetries + 1, 1>>
    /\ lkLookup[1].kind = "error"
    /\ lkLookup[2] = Ok(V20)
    /\ lkOrder = <<1, 2>>

\* C15: the max-retries input bounds the retries of network operations: in a
\* run with max-retries = N the registry request of any one package is made
\* at most N + 1 times.
C15_MaxRetriesBoundsRequests ==
    \A i \in DOMAIN lkRequests : lkRequests[i] <= lkMaxRetries + 1

-----------------------------------------------------------------------------
(* Properties of the forge calls and of the inputs *)

\* how often the run called the PullRequestManager operation name
CallsOf(name) == Cardinality({i \in DOMAIN forgeCalls : forgeCalls[i] = name})

\* the run ended in its catch with a forge error the classifier calls retryable
RetryableForgeFailure ==
    /\ runPc = "done"
    /\ runError.kind = "error"
    /\ runError.cls = "GitHubError"
    /\ shouldRetry(runError)
    /\ forgeCalls # <<>>

\* C14: a forge operation (branch creation, PR creation, PR update) that
\* fails with a retryable forge error is retried up to the configured bound
\* before the failure is surfaced: when the run ends with such an error, the
\* operation that failed was called max-retries + 1 times.
C14_ForgeFailureRetried ==
    RetryableForgeFailure
        => CallsOf(forgeCalls[Len(forgeCalls)]) = config.maxRetries.n + 1

\* C16: whatever the max-retries input is, a finished run either was stopped
\* by the validation of its inputs before any scan, or scanned at least once
\* with a retry bound that is an integer from 0 to 10.
C16_ValidatedRetryBound ==
    (runs > 0 /\ runPc = "done")
        => \/ /\ validateConfig(config).kind = "error"
              /\ runError = validateConfig(config)
              /\ scanInvocations = 0
           \/ /\ validateConfig(config).kind = "ok"
              /\ ~config.maxRetries.nan
              /\ config.maxRetries.n \in 0..MaxRetriesLimit
              /\ scanInvocations >= 1

-----------------------------------------------------------------------------
(* Properties of the classifier *)

TypedClasses == {"NetworkError", "ValidationError", "GitHubError"}
MessagePatterns == NetworkPatterns \cup FileSystemPatterns
                       \cup DevboxCommandPatterns \cup ConfigurationPatterns

\* no row of the decision table applies to the thrown value
NoRowApplies ==
    /\ thrown.cls \notin TypedClasses
    /\ thrown.msg \cap MessagePatterns = {}

\* C17: the classification is a function of the thrown value.  A typed
\* network error is (network, medium, retryable); a typed validation error
\* is (validation, high, not retryable) whatever its message; a typed forge
\* error is (github_api, high) and retryable exactly when its message
\* matches rate limit, server error, service unavailable or timeout; a value
\* no row applies to is (unknown, medium, not retryable).
C17_ClassifyTable ==
    errorInfo # NoValue
        => /\ thrown.cls = "NetworkError"
                 => errorInfo = Info("network", "medium", TRUE)
           /\ thrown.cls = "ValidationError"
                 => errorInfo = Info("validation", "high", FALSE)
           /\ thrown.cls = "GitHubError"
                 => /\ errorInfo.category = "github_api"
                    /\ errorInfo.severity = "high"
                    /\ errorInfo.retryable
                          <=> \E w \in {"rate limit", "server error",
                                        "service unavailable", "timeout"} :
                                 w \in thrown.msg
           /\ NoRowApplies => errorInfo = Info("unknown", "medium", FALSE)

\* a validation error whose message names a connection reset: not retryable
C17_Witness ==
    /\ thrown = Err("ValidationError", {"ECONNRESET"}, 0)
    /\ errorInfo = Info("validation", "high", FALSE)

\* a forge error that timed out is retryable, one that names a missing file
\* is not
C17_WitnessForge ==
    /\ thrown.cls = "GitHubError"
    /\ errorInfo # NoValue
    /\ \/ thrown.msg = {"timeout"} /\ errorInfo.retryable
       \/ thrown.msg = {"ENOENT"} /\ ~errorInfo.retryable

\* C18: a value that is no typed network, validation or forge error and
\* whose message matches a file-system pattern and no network pattern is
\* classified (file_system, high, not retryable); so are the errors of the
\* file mutator's failed backup, restore and write.
C18_FileSystemErrors ==
    (/\ errorInfo # NoValue
     /\ thrown.cls \notin TypedClasses
     /\ isFileSystemError(thrown)
     /\ ~isNetworkError(thrown))
        => errorInfo = Info("file_system", "high", FALSE)

-----------------------------------------------------------------------------
(* Properties of the outputs *)

\* a run is under way
Running == runPc \notin {"idle", "done"}

\* what a finished run has emitted and whether it was marked failed
C19_Outputs ==
    /\ Running => setFailedCalls = 0 /\ emitted = NoValue /\ runError = NoValue
    /\ (runs > 0 /\ runPc = "done")
          => /\ emitted # NoValue
             /\ emitted = outputs
             /\ setFailedCalls = IF runError = NoValue THEN 0 ELSE 1
             /\ emitted.error_message.defined <=> setFailedCalls = 1
             /\ emitted.error_message.defined
                   => emitted.error_message.of = runError
             /\ summary # NoValue
                   => emitted.update_summary = summary.summary
             /\ emitted.existing_pr_found <=> ~existingPR.isNull
             /\ emitted.changes <=> fmPc = "returned"
             /\ fmPc = "thrown" => setFailedCalls = 1
             /\ validateConfig(config).kind = "error" => setFailedCalls = 1

\* C19: every run terminates, and has then emitted changes, update-summary,
\* pr-updated and existing-pr-found; an error thrown in any phase (inputs,
\* scan, file mutation, branch or PR operation) marks the run failed exactly
\* once and emits error-message; error-message is emitted by failed runs
\* only; what the outputs had accumulated before the failure is emitted too.
C19_RunEndsWithOutputs == []C19_Outputs /\ (Running ~> runPc = "done")

\* the PR creation failed after the files were updated: failed once, with
\* changes = true and the error message emitted
C19_Witness ==
    /\ runPc = "done"
    /\ fmPc = "returned"
    /\ runError = Err("GitHubError", {"rate limit"}, 0)
    /\ forgeCalls[Len(forgeCalls)] = "createUpdatePR"
    /\ setFailedCalls = 1
    /\ emitted.changes
    /\ emitted.error_message.defined
    /\ emitted.error_message.retryNotice

-----------------------------------------------------------------------------
(* Properties of the phases of a run *)

\* the steps of a file mutation that went through
FullMutation ==
    <<Step("createBackup", TRUE), Step("readConfig", TRUE),
      Step("writeConfig", TRUE), Step("regenerateLock", TRUE),
      Step("validateLockFile", TRUE), Step("commitChanges", TRUE)>>

\* the forge calls of a run that finds no PR and opens one
CreatingCalls ==
    { <<"checkExistingPR", "branchExists", "createUpdatePR">>,
      <<"checkExistingPR", "branchExists", "createBranch", "createUpdatePR">>,
      <<"checkExistingPR", "branchExists", "createBranch", "createBranch",
        "createUpdatePR">> }

\* scan, then the existing-PR lookup, then the file mutation, then the
\* branch, then the PR
PhasesInOrder ==
    /\ forgeCalls # <<>> => summary # NoValue /\ forgeCalls[1] = "checkExistingPR"
    /\ fmPc # "idle" => forgeCalls # <<>>
    /\ (fmPc \notin {"idle", "returned"}) => Len(forgeCalls) = 1
    /\ Len(forgeCalls) > 1 => fmPc = "returned" /\ fmTrace = FullMutation
    /\ \A i \in DOMAIN forgeCalls :
          forgeCalls[i] = "createUpdatePR"
              => /\ i = Len(forgeCalls)
                 /\ forgeCalls[i - 1] \in {"branchExists", "createBranch"}
                 /\ branchName # <<>>

\* the run found exactly one update, the change of a pin, and no open PR,
\* and went through
OneUpdateRun ==
    /\ runPc = "done"
    /\ runError = NoValue
    /\ summary # NoValue
    /\ Len(summary.updates) = 1
    /\ existingPR.isNull

\* the run of the example: devbox.json holds nodejs@18.0.0, the registry
\* answers 20.10.0, no PR is found, the branch is created at the first call
ExampleRun ==
    /\ OneUpdateRun
    /\ repoManifest.state = "json"
    /\ repoManifest.packages = <<<<"n", "o", "d", "e", "j", "s", "@", "1", "8", ".", "0", ".", "0">>>>
    /\ lookups = <<Ok(V20)>>
    /\ CallsOf("createBranch") = 1

\* what the example's run leaves: the manifest, the PR on the branch
ExampleOutcome(branch) ==
    /\ manifest.state = "json"
    /\ manifest.packages = <<<<"n", "o", "d", "e", "j", "s", "@", "2", "0", ".", "1", "0", ".", "0">>>>
    /\ branchName = branch
    /\ [name |-> branch, from |-> <<"m", "a", "i", "n">>] \in branches
    /\ prs[Len(prs)].openedBy = runs
    /\ prs[Len(prs)].head = branch
    /\ prs[Len(prs)].title = <<"c", "h", "o", "r", "e", ":", " ", "u", "p", "d", "a", "t", "e", " ", "n", "o", "d", "e", "j", "s", " ", "f", "r", "o", "m", " ", "1", "8", ".", "0", ".", "0", " ", "t", "o", " ", "2", "0", ".", "1", "0", ".", "0">>
    /\ emitted.pr_number = Number(Len(prs))

\* C20 as stated: the phases are in order, a run with one update and no PR
\* makes the calls of a creating run after a full mutation, and the example
\* ends with the branch devbox/nodejs-20-10-0.
C20_AsStated ==
    /\ PhasesInOrder
    /\ OneUpdateRun => forgeCalls \in CreatingCalls /\ fmTrace = FullMutation
    /\ ExampleRun => ExampleOutcome(<<"d", "e", "v", "b", "o", "x", "/", "n", "o", "d", "e", "j", "s", "-", "2", "0", "-", "1", "0", "-", "0">>)

\* C20: in a run with exactly one pin-change update and no existing PR the
\* phases are scan, existing-PR lookup, file mutation (backup, manifest
\* rewrite, lock regeneration, commit), branch creation, PR creation; for
\* the manifest nodejs@18.0.0 and the registry's 20.10.0 the manifest
\* becomes nodejs@20.10.0, the PR title is "chore: update nodejs from 18.0.0
\* to 20.10.0" and the branch created is <branch-prefix>/nodejs-20-10-0,
\* which is devbox-updates/nodejs-20-10-0 when the input is left out.
C20_PhasesAndExample ==
    /\ PhasesInOrder
    /\ OneUpdateRun => forgeCalls \in CreatingCalls /\ fmTrace = FullMutation
    /\ ExampleRun
          => /\ ExampleOutcome(config.branchPrefix \o <<"/", "n", "o", "d", "e", "j", "s", "-", "2", "0", "-", "1", "0", "-", "0">>)
             /\ config.branchPrefix = ActionConfig(DefaultInputs).branchPrefix
                   => branchName = <<"d", "e", "v", "b", "o", "x", "-", "u", "p", "d", "a", "t", "e", "s", "/", "n", "o", "d", "e", "j", "s", "-", "2", "0", "-", "1", "0", "-", "0">>

\* the example with the inputs left out
C20_Witness ==
    /\ ExampleRun
    /\ config = DefaultConfig
    /\ branchName = <<"d", "e", "v", "b", "o", "x", "-", "u", "p", "d", "a", "t", "e", "s", "/", "n", "o", "d", "e", "j", "s", "-", "2", "0", "-", "1", "0", "-", "0">>
    /\ forgeCalls = <<"checkExistingPR", "branchExists", "createBranch",
                      "createUpdatePR">>

\* the example with the input branch-prefix: devbox
C20_WitnessPrefixGiven ==
    /\ ExampleRun
    /\ config.branchPrefix = <<"d", "e", "v", "b", "o", "x">>
    /\ branchName = <<"d", "e", "v", "b", "o", "x", "/", "n", "o", "d", "e", "j", "s", "-", "2", "0", "-", "1", "0", "-", "0">>

-----------------------------------------------------------------------------
(* Properties of the branch names *)

\* the sanitization the branch name is said to apply to name and version
SanitizedLower(s) == toLowerCase(branchSafe(s))

\* C21: generateBranchName is a function of prefix, mode and updates.  In
\* single-package mode one update yields prefix/name-version with name and
\* version lowercased and every character outside [a-zA-Z0-9-] replaced by
\* "-"; two or more updates, multi-package mode or no update yield
\* prefix/multi-package-updates.
C21_BranchNameScheme ==
    callResult # NoValue
        => callResult =
              Ok(IF callArgs.singlePackageMode /\ Len(callArgs.updates) = 1
                 THEN callArgs.prefix \o <<"/">>
                          \o SanitizedLower(callArgs.updates[1].packageName)
                          \o <<"-">>
                          \o SanitizedLower(callArgs.updates[1].latestVersion)
                 ELSE callArgs.prefix \o <<"/", "m", "u", "l", "t", "i", "-", "p", "a", "c", "k", "a", "g", "e", "-", "u", "p", "d", "a", "t", "e", "s">>)

-----------------------------------------------------------------------------
(* Properties of the version order *)

Compared == callResult # NoValue
Signs == {Ok(0 - 1), Ok(0), Ok(1)}

\* the comparison is antisymmetric and reflexive on the pair of the call
Antisymmetric ==
    /\ callResult.ab \in Signs
    /\ callResult.ba \in Signs
    /\ callResult.ab.value = 0 - callResult.ba.value
    /\ callResult.aa = Ok(0)

\* C24 as stated: for all non-empty version strings a and b,
\* compareVersions(a, b) = -compareVersions(b, a) and compareVersions(a, a)
\* = 0, with results in {-1, 0, 1}.
C24_AsStated ==
    (Compared /\ callArgs.a # <<>> /\ callArgs.b # <<>>) => Antisymmetric

\* C24: for all version strings a and b that are not blank (not empty after
\* trimming), compareVersions(a, b) = -compareVersions(b, a) and
\* compareVersions(a, a) = 0, with results in {-1, 0, 1}.
C24_Antisymmetry ==
    (Compared /\ trim(callArgs.a) # <<>> /\ trim(callArgs.b) # <<>>)
        => Antisymmetric

\* two prerelease tags of the same version, compared both ways
C24_Witness ==
    /\ Compared
    /\ callArgs.a = <<"1", ".", "0", ".", "0", "-", "b", "e", "t", "a">>
    /\ callArgs.b = <<"1", ".", "0", ".", "0", "-", "r", "c">>
    /\ callResult.ab = Ok(0 - 1)
    /\ callResult.ba = Ok(1)

\* both versions of the call parse, to the same major, minor and patch
SameNumbers ==
    /\ Compared
    /\ parseVersion(callArgs.a).ok
    /\ parseVersion(callArgs.b).ok
    /\ parseVersion(callArgs.a).major = parseVersion(callArgs.b).major
    /\ parseVersion(callArgs.a).minor = parseVersion(callArgs.b).minor
    /\ parseVersion(callArgs.a).patch = parseVersion(callArgs.b).patch

PrereleaseOf(version) == parseVersion(version).prerelease
OriginalOf(version) == parseVersion(version).original

\* C25: for two versions with equal major, minor and patch, one with a
\* prerelease tag is less than one without; two with different tags compare
\* as the tags do lexically; with equal tags (or none) the result is the
\* lexical comparison of the original strings, so that the result is 0 only
\* when the original strings are equal.
C25_PrereleaseThenOriginal ==
    SameNumbers
        => /\ (Truthy(PrereleaseOf(callArgs.a)) /\ ~Truthy(PrereleaseOf(callArgs.b)))
                 => callResult.ab = Ok(0 - 1)
           /\ (Truthy(PrereleaseOf(callArgs.a)) /\ Truthy(PrereleaseOf(callArgs.b))
                  /\ PrereleaseOf(callArgs.a) # PrereleaseOf(callArgs.b))
                 => callResult.ab = Ok(localeCompare(PrereleaseOf(callArgs.a).str,
                                                     PrereleaseOf(callArgs.b).str))
           /\ (Truthy(PrereleaseOf(callArgs.a)) = Truthy(PrereleaseOf(callArgs.b))
                  /\ (Truthy(PrereleaseOf(callArgs.a))
                         => PrereleaseOf(callArgs.a) = PrereleaseOf(callArgs.b)))
                 => callResult.ab = Ok(localeCompare(OriginalOf(callArgs.a),
                                                     OriginalOf(callArgs.b)))
           /\ callResult.ab = Ok(0)
                 => OriginalOf(callArgs.a) = OriginalOf(callArgs.b)

-----------------------------------------------------------------------------
(* Properties of the package specs *)

\* C26: for every entry s the manifest validation accepts (a string that is
\* not blank), the spec built from the parsed name and version is s, and so
\* is the fullSpec of the parse; also for entries with a leading "@",
\* several "@" or a trailing "@".
C26_SpecRoundTrip ==
    (callResult # NoValue /\ validateDevboxConfig(<<callArgs.packageSpec>>))
        => /\ callResult.created = callArgs.packageSpec
           /\ callResult.parsed.fullSpec = callArgs.packageSpec

-----------------------------------------------------------------------------
(* Properties of the manifest entries *)

\* the entry is pinned to "latest"
IsLatestPin(entry) == parsePackageSpec(entry).version = Str(LATEST)

\* a candidate of the call refreshes a "latest" pin
HasLatestRefresh ==
    \E i \in 1..Len(fmUpdates) :
        fmUpdates[i].updateAvailable /\ fmUpdates[i].currentVersion = LATEST

\* C27: no applyUpdates call changes a manifest entry that is pinned to
\* "latest", whatever the manifest (also one that lists a name twice, once
\* with a version and once with "latest") and the candidates are: each such
\* entry is the same before and after; and the lock is regenerated when a
\* candidate that refreshes a "latest" pin is applicable.
C27_LatestPinsKept ==
    /\ (fmPc # "idle" /\ fmPre.manifest.state = "json" /\ manifest.state = "json")
          => /\ Len(manifest.packages) = Len(fmPre.manifest.packages)
             /\ \A i \in 1..Len(fmPre.manifest.packages) :
                   IsLatestPin(fmPre.manifest.packages[i])
                       => manifest.packages[i] = fmPre.manifest.packages[i]
    /\ (fmPc = "returned" /\ HasLatestRefresh)
          => \E k \in 1..Len(fmTrace) : fmTrace[k] = Step("regenerateLock", TRUE)

\* the applicable pin-change candidates of the call for the name
PinChangesFor(name) ==
    {i \in 1..Len(callArgs.updates) :
        /\ callArgs.updates[i].updateAvailable
        /\ callArgs.updates[i].currentVersion # LATEST
        /\ callArgs.updates[i].packageName = name}

\* the greatest element of a non-empty set of numbers
Last(S) == CHOOSE i \in S : \A j \in S : j <= i

\* C28: updatePackages leaves everything but the targeted entries as it was:
\* the packages keep their number and order, every entry whose parsed name
\* is not the name of an applicable pin-change candidate is identical, the
\* other sections are identical, the config passed in is not changed, and
\* each targeted entry becomes name@latestVersion (of the last such candidate
\* when there are several for the name).
C28_OnlyTargetsChange ==
    [][callResult' # callResult
          => /\ callArgs' = callArgs
             /\ callResult'.kind = "ok"
             /\ callResult'.value.shell = callArgs.config.shell
             /\ Len(callResult'.value.packages) = Len(callArgs.config.packages)
             /\ \A i \in 1..Len(callArgs.config.packages) :
                   LET entry == callArgs.config.packages[i]
                       name == parsePackageSpec(entry).name
                   IN  IF PinChangesFor(name) = {}
                       THEN callResult'.value.packages[i] = entry
                       ELSE callResult'.value.packages[i] =
                                name \o <<"@">>
                                    \o callArgs.updates[Last(PinChangesFor(name))].latestVersion
       ]_vars

\* a manifest with a scoped package and an untouched one, one candidate
C28_Witness ==
    /\ callArgs.fn = "updatePackages"
    /\ callArgs.config.packages = <<<<"@", "n", "/", "g", "o", "@", "1", ".", "2", "1">>, go>>
    /\ callArgs.updates = <<Candidate(<<"@", "n", "/", "g", "o">>, V121, V20, TRUE)>>
    /\ callResult = Ok([packages |-> <<<<"@", "n", "/", "g", "o", "@", "2", "0", ".", "1", "0", ".", "0">>, go>>,
                        shell |-> callArgs.config.shell])

-----------------------------------------------------------------------------
(* Properties of the order of applyUpdates *)

\* the positions of the step in the trace of the call
StepsOf(name) == {i \in 1..Len(fmTrace) : fmTrace[i].step = name}

\* the lock file is there and its text is JSON
LockParses == lockFile \in {"committed", "regenerated"}

\* C29: in an applyUpdates call with an applicable candidate the backup is
\* taken before any write, the lock regenerator runs once, after the manifest
\* write (if any) and before the commit, the commit happens only if the
\* regenerated lock is there and parses as JSON, and otherwise the call fails
\* without a commit.
C29_BackupLockCommitOrder ==
    /\ \A i \in StepsOf("writeConfig") \cup StepsOf("regenerateLock")
                   \cup StepsOf("commitChanges") \cup StepsOf("restoreFromBackup") :
          \E j \in 1..(i - 1) : fmTrace[j] = Step("createBackup", TRUE)
    /\ Cardinality(StepsOf("regenerateLock")) <= 1
    /\ Cardinality(StepsOf("commitChanges")) <= 1
    /\ \A w \in StepsOf("writeConfig"), r \in StepsOf("regenerateLock") : w < r
    /\ (Len(configUpdates(fmUpdates)) > 0 /\ StepsOf("regenerateLock") # {})
          => \E w \in StepsOf("writeConfig") : fmTrace[w].ok
    /\ \A c \in StepsOf("commitChanges") :
          /\ \E r \in 1..(c - 1) : fmTrace[r] = Step("regenerateLock", TRUE)
          /\ LockParses
    /\ (fmPc = "returned") =>
          /\ \E c \in StepsOf("commitChanges") : fmTrace[c].ok
          /\ LockParses
    /\ (fmPc = "thrown") =>
          /\ fmResult.kind = "error"
          /\ vcsLog = <<>>
          /\ vcsHead = [manifest |-> fmPre.manifest, lockFile |-> fmPre.lockFile]
    /\ (fmPc \in {"validateLockFile", "commitChanges"} /\ ~LockParses)
          => StepsOf("commitChanges") = {}

\* a pin change written, the lock regenerated, the two committed
C29_Witness ==
    /\ fmPc = "returned"
    /\ [i \in 1..Len(fmTrace) |-> fmTrace[i].step]
          = <<"createBackup", "readConfig", "writeConfig", "regenerateLock",
              "validateLockFile", "commitChanges">>
    /\ lockFile = "regenerated"
    /\ Len(vcsLog) = 1

\* the regenerated lock is no JSON: the call fails and nothing is committed
C29_WitnessInvalidLock ==
    /\ fmPc = "thrown"
    /\ fmResult = DevboxErr("INVALID_LOCK_FILE")
    /\ lockFile = "invalid"
    /\ vcsLog = <<>>

-----------------------------------------------------------------------------
(* Properties of checkExistingPR *)

\* the source branch starts with prefix/ or prefix-, or the title holds
\* "devbox" and "update" in any case
Matches(pr, prefix) ==
    \/ /\ Len(pr.head) > Len(prefix)
       /\ SubSeq(pr.head, 1, Len(prefix)) = prefix
       /\ pr.head[Len(prefix) + 1] \in {"/", "-"}
    \/ \E i, j \in 1..(Len(pr.title) - 5) :
          /\ toLowerCase(SubSeq(pr.title, i, i + 5)) = <<"d", "e", "v", "b", "o", "x">>
          /\ toLowerCase(SubSeq(pr.title, j, j + 5)) = <<"u", "p", "d", "a", "t", "e">>

\* the open pull requests of the call that match
MatchingOpen ==
    {pr \in {callArgs.pulls[i] : i \in 1..Len(callArgs.pulls)} :
        pr.state = "open" /\ Matches(pr, callArgs.prefix)}

\* what the claim says of a call whose listing succeeded
ExistingAsListed ==
    IF MatchingOpen = {} THEN callResult.value = Null
    ELSE \E pr \in MatchingOpen :
            /\ callResult.value = ExistingPRInfo(pr)
            /\ \A other \in MatchingOpen : other.updatedAt <= pr.updatedAt

\* C30: checkExistingPR returns none when no open PR matches, otherwise the
\* matching open PR with the greatest updated-at; it never throws, a failed
\* listing yields none.
C30_MostRecentMatch ==
    (callArgs # NoValue /\ callArgs.fn = "checkExistingPR" /\ callResult # NoValue)
        => /\ callResult.kind = "ok"
           /\ IF callArgs.listed THEN ExistingAsListed
              ELSE callResult.value = Null

\* the same, for a repository whose open pull requests fit the first page
C30_MostRecentOnFirstPage ==
    (callArgs # NoValue /\ callArgs.fn = "checkExistingPR" /\ callResult # NoValue
        /\ callArgs.newer + Len(callArgs.pulls) <= PerPage)
        => /\ callResult.kind = "ok"
           /\ IF callArgs.listed THEN ExistingAsListed
              ELSE callResult.value = Null

-----------------------------------------------------------------------------
(* Properties of the update branch *)

\* how many createBranch calls the list holds
CreateCalls(calls) == Cardinality({i \in 1..Len(calls) : calls[i] = "createBranch"})

\* the name getOrCreateUpdateBranch computes in the state
ComputedBranch == generateBranchName(config.branchPrefix, summary.updates, clock)

\* C22: whenever the computed branch already exists on the forge,
\* getOrCreateUpdateBranch returns that name and issues no create call; a
\* branch with the timestamped unique name is created only after a create
\* attempt for the computed name failed; when creating the unique branch
\* fails too, the forge error propagates.
C22_ExistingBranchReused ==
    [][(runPc = "getOrCreateUpdateBranch" /\ runPc' # runPc)
          => /\ (\E b \in branches : b.name = ComputedBranch)
                   => /\ runPc' = "createUpdatePR"
                      /\ branchName' = ComputedBranch
                      /\ CreateCalls(forgeCalls') = CreateCalls(forgeCalls)
                      /\ branches' = branches
             /\ (\E b \in branches' \ branches : b.name # ComputedBranch)
                   => CreateCalls(forgeCalls') = CreateCalls(forgeCalls) + 2
             /\ (CreateCalls(forgeCalls') = CreateCalls(forgeCalls) + 2
                     /\ branches' = branches)
                   => /\ runPc' = "done"
                      /\ runError'.kind = "error"
                      /\ runError'.cls = "GitHubError"
       ]_vars

\* C23: a newly created update branch points at the tip of the default
\* branch of the repository, whatever that branch is named, and the pull
\* request opened from it targets that default branch.
C23_FromDefaultBranch ==
    /\ \A b \in branches : b.from # <<>> => b.from = defaultBranch
    /\ \A i \in 1..Len(prs) : prs[i].base = defaultBranch

-----------------------------------------------------------------------------
(* Properties of updateExistingPR *)

\* the body starts with the other body
IsPrefix(prefix, body) ==
    Len(prefix) <= Len(body) /\ SubSeq(body, 1, Len(prefix)) = prefix

\* the body is the other body and one section of additional updates
OneSectionAppended(before, after) ==
    /\ Len(after) = Len(before) + 1
    /\ IsPrefix(before, after)
    /\ after[Len(after)].block = "additional"

\* C31: updateExistingPR with description updates enabled regenerates the
\* title; the body is the freshly formatted description when the existing
\* body is empty, preservation is off or the strategy is overwrite, and
\* otherwise the existing body, unchanged, with a section of additional
\* updates appended; with description updates disabled title and body are
\* sent unchanged.
C31_UpdatedDescription ==
    (callArgs # NoValue /\ callArgs.fn = "updateExistingPR" /\ callResult # NoValue)
        => LET pr == callArgs.pr
               strategy == callArgs.strategy
               fresh == IF callArgs.summary.totalUpdates = 0
                        THEN <<[block |-> "none", updates |-> <<>>]>>
                        ELSE <<[block |-> "updates",
                                updates |-> callArgs.summary.updates]>>
           IN  IF ~strategy.updateDescription
               THEN callResult.sent = [title |-> pr.title, body |-> pr.body]
               ELSE /\ callResult.sent.title = generatePRTitle(callArgs.summary)
                    /\ IF \/ pr.body = <<>>
                          \/ ~strategy.preserveExistingUpdates
                          \/ strategy.conflictResolution = "overwrite"
                       THEN callResult.sent.body = fresh
                       ELSE OneSectionAppended(pr.body, callResult.sent.body)

\* the default strategy on a body the action wrote: one section more
C31_Witness ==
    /\ callArgs # NoValue /\ callArgs.fn = "updateExistingPR"
    /\ callResult # NoValue
    /\ callArgs.strategy = DefaultStrategy
    /\ callArgs.pr.body = formatChangeDescription(<<Candidate(nodejs, V18, V20, TRUE)>>)
    /\ callArgs.summary.totalUpdates = 1
    /\ Len(callResult.sent.body) = 2
    /\ callResult.sent.title # callArgs.pr.title

-----------------------------------------------------------------------------
(* Properties of the backoff delays *)

\* an executeWithRetry call without jitter has settled
BackoffSettled ==
    /\ callArgs # NoValue /\ callArgs.fn = "executeWithRetry"
    /\ callResult # NoValue
    /\ ~callArgs.config.jitter

\* min(baseDelay * multiplier^k, maxDelay) is the whole number d
IsBackoff(d, k) ==
    LET c == callArgs.config
        num == c.baseDelay * Power(c.multiplier.num, k)
        den == Power(c.multiplier.den, k)
    IN  IF num > c.maxDelay * den THEN d = c.maxDelay ELSE d * den = num

\* min(baseDelay * multiplier^k, maxDelay) rounded to the nearest whole
\* number is d
IsRoundedBackoff(d, k) ==
    LET c == callArgs.config
        num == c.baseDelay * Power(c.multiplier.num, k)
        den == Power(c.multiplier.den, k)
    IN  IF num > c.maxDelay * den THEN d = c.maxDelay
        ELSE 2 * d * den - den <= 2 * num /\ 2 * num < 2 * d * den + den

\* delays do not decrease and stay below the cap, and there is one
\* suspension less than invocations
BackoffShape ==
    /\ \A i \in 1..(Len(callResult.delays) - 1) :
          callResult.delays[i] <= callResult.delays[i + 1]
    /\ \A i \in 1..Len(callResult.delays) :
          callResult.delays[i] <= callArgs.config.maxDelay
    /\ Len(callResult.delays) = callResult.invocations - 1

\* C32 as stated: with jitter off the suspension before retry k lasts
\* exactly min(baseDelay * multiplier^k, maxDelay), the delays do not
\* decrease and never exceed maxDelay, and the suspensions of one call are
\* its invocations minus one.
C32_AsStated ==
    BackoffSettled
        => /\ \A i \in 1..Len(callResult.delays) :
                 IsBackoff(callResult.delays[i], i - 1)
           /\ BackoffShape

\* C32: with jitter off the suspension before retry k lasts
\* min(baseDelay * multiplier^k, maxDelay) rounded to the nearest
\* millisecond, the delays do not decrease and never exceed maxDelay, the
\* suspensions of one call are its invocations minus one, and none follows
\* the final attempt or a failure that is not retryable.
C32_RoundedBackoff ==
    BackoffSettled
        => /\ \A i \in 1..Len(callResult.delays) :
                 IsRoundedBackoff(callResult.delays[i], i - 1)
           /\ BackoffShape

\* the configuration of the tests with four retries: 10, 20, 40, 80
C32_Witness ==
    /\ BackoffSettled
    /\ callArgs.config.multiplier = Ratio(2, 1)
    /\ callResult.delays = <<10, 20, 40, 80>>
    /\ callResult.invocations = 5

\* the multiplier 1.5: the third delay is 23 for 22.5, the fourth the cap
C32_WitnessRounded ==
    /\ BackoffSettled
    /\ callArgs.config.multiplier = Ratio(3, 2)
    /\ callResult.delays = <<10, 15, 23, 30>>
    /\ callResult.result.kind = "error"

-----------------------------------------------------------------------------
(* Properties of the update summary *)

\* the candidates scanForUpdates returned in the run, in scan order
Scanned == [i \in 1..Len(repoManifest.packages) |-> ScannedCandidate(i)]

\* the positions of the scanned candidates with an update available
AvailableAt == {i \in 1..Len(Scanned) : Scanned[i].updateAvailable}

\* C33: every UpdateSummary generateUpdateSummary produces holds exactly the
\* scanned candidates with updateAvailable = true, in scan order, none of
\* them with the latestVersion "lookup-failed"; totalUpdates is the length
\* of updates and hasChanges is true iff totalUpdates > 0.
C33_SummaryOfAvailable ==
    (summary # NoValue)
        => /\ Len(summary.updates) = Cardinality(AvailableAt)
           /\ \A k \in 1..Len(summary.updates) :
                 \E i \in AvailableAt :
                    /\ Cardinality({j \in AvailableAt : j <= i}) = k
                    /\ summary.updates[k] = Scanned[i]
           /\ \A k \in 1..Len(summary.updates) :
                 /\ summary.updates[k].updateAvailable
                 /\ summary.updates[k].latestVersion # LOOKUP_FAILED
           /\ summary.totalUpdates = Len(summary.updates)
           /\ summary.hasChanges <=> summary.totalUpdates > 0

\* two packages scanned, one lookup failed, the other one is the summary
C33_Witness ==
    /\ summary # NoValue
    /\ Len(Scanned) = 2
    /\ \E i \in 1..2 : Scanned[i].latestVersion = LOOKUP_FAILED
    /\ summary.totalUpdates = 1
    /\ summary.hasChanges

-----------------------------------------------------------------------------
(* Properties of the head branch *)

\* the forge's branch the run opens its pull request from
HeadBranches == {b \in branches : b.name = branchName}

\* C34: when a run creates a new PR, the head branch of that PR contains the
\* commit the file mutation step made (the rewritten manifest and the
\* regenerated lock), so the head branch differs from the base branch.
C34_HeadHoldsCommit ==
    (runPc = "createUpdatePR" \/ (runPc = "done" /\ \E i \in 1..Len(prs) :
                                      prs[i].openedBy = runs))
        => \A b \in HeadBranches :
              /\ TipOf(b) = vcsHead
              /\ \A base \in branches :
                    base.name = <<"m", "a", "i", "n">> => TipOf(b) # TipOf(base)

-----------------------------------------------------------------------------
(* Properties of the rollback *)

-----------------------------------------------------------------------------
(* Properties of a forge failure after the file mutation *)

\* the run ended in its catch after applyUpdates had returned
FailedAfterMutation ==
    /\ runPc = "done"
    /\ runError # NoValue
    /\ fmPc = "returned"

\* C36: when a branch or PR operation fails after the file mutation step
\* succeeded, nothing is rolled back: the manifest stays rewritten and
\* committed, the run is marked failed, and the outputs report changes = true
\* with an error message and, on the create path, no pr-number.
C36_NoRollbackAfterMutation ==
    FailedAfterMutation
        => /\ runError.cls = "GitHubError"
           /\ StepsOf("restoreFromBackup") = {}
           /\ vcsHead = [manifest |-> manifest, lockFile |-> lockFile]
           /\ (Len(configUpdates(fmUpdates)) > 0)
                 => /\ manifest # repoManifest
                    /\ manifest.state = "json"
                    /\ manifest.packages = fmResult.value
           /\ setFailedCalls = 1
           /\ emitted # NoValue
           /\ emitted.changes
           /\ emitted.error_message # NoMessage
           /\ existingPR = Null => emitted.pr_number = NoNumber

\* the branch could not be created after go was pinned and committed
C36_Witness ==
    /\ FailedAfterMutation
    /\ existingPR = Null
    /\ CallsOf("createBranch") > 0
    /\ CallsOf("createUpdatePR") = 0
    /\ Len(vcsLog) = 1
    /\ emitted.changes

-----------------------------------------------------------------------------
(* Properties of a scan whose lookups all fail *)

\* the scan of the run returned, and the registry lookup failed for every
\* package of the manifest
EveryLookupFailed ==
    /\ summary # NoValue
    /\ Len(lookups) > 0
    /\ \A i \in 1..Len(lookups) : lookups[i].kind = "error"

\* C37: when the registry lookup fails for every package of a valid
\* manifest, the run ends as a success with changes = false and the summary
\* "All packages are up to date.": it is not marked failed, emits no
\* error-message, and performs no mutation and no forge call.
C37_AllLookupsFailedIsSuccess ==
    EveryLookupFailed
        => /\ runPc = "done"
           /\ runError = NoValue
           /\ setFailedCalls = 0
           /\ emitted # NoValue
           /\ ~emitted.changes
           /\ emitted.update_summary.headline = "All packages are up to date."
           /\ emitted.error_message = NoMessage
           /\ emitted.pr_number = NoNumber
           /\ forgeCalls = <<>>
           /\ prs = <<>> \/ \A i \in 1..Len(prs) : prs[i].openedBy # runs
           /\ fmTrace = <<>>
           /\ manifest = repoManifest /\ lockFile = repoLock
           /\ vcsLog = <<>>

\* two packages, both lookups failed
C37_Witness ==
    /\ EveryLookupFailed
    /\ Len(lookups) = 2
    /\ runPc = "done"
    /\ emitted.update_summary.headline = "All packages are up to date."

-----------------------------------------------------------------------------
(* Properties of the HTTP failures of the registry *)

\* the update check settled, and every failure of its registry request was
\* one of the HTTP client (a timeout, a 404, a 500)
HttpFailuresOnly ==
    /\ ckPc = "done"
    /\ registry.failErr = AxiosFailure
    /\ registry.then = Succeeds \/ registry.fails > ApiMaxRetries

C38_WitnessAnswered ==
    /\ HttpFailuresOnly
    /\ registry.fails = 3
    /\ requests = 4
    /\ ckLookup.kind = "ok"

-----------------------------------------------------------------------------
(* Properties relating the outputs *)

\* the run opened a pull request
CreatedPR == \E i \in 1..Len(prs) : prs[i].openedBy = runs

\* C39: the outputs of every run satisfy: pr-updated = true implies
\* existing-pr-found = true; pr-number is emitted only if changes = true; on
\* the path that creates a new PR pr-updated = false and existing-pr-found =
\* false; on the no-update path pr-number is never emitted.
C39_OutputsConsistent ==
    (emitted # NoValue)
        => /\ emitted.pr_updated => emitted.existing_pr_found
           /\ emitted.pr_number # NoNumber => emitted.changes
           /\ (CallsOf("branchExists") > 0 \/ CreatedPR)
                 => ~emitted.pr_updated /\ ~emitted.existing_pr_found
           /\ (summary # NoValue /\ ~summary.hasChanges)
                 => emitted.pr_number = NoNumber

\* a run that opened a pull request and emitted its number
C39_Witness ==
    /\ runPc = "done"
    /\ emitted # NoValue
    /\ CreatedPR
    /\ emitted.pr_number # NoNumber
    /\ emitted.changes /\ ~emitted.pr_updated /\ ~emitted.existing_pr_found

\* a run that updated the pull request of the run before
C39_WitnessUpdated ==
    /\ runPc = "done"
    /\ emitted # NoValue
    /\ emitted.pr_updated /\ emitted.existing_pr_found
    /\ emitted.pr_number = Number(1)

-----------------------------------------------------------------------------
(* Properties of repeated updates of a pull request *)

\* C40: with the default merge strategy updating an existing PR is not
\* idempotent: each run that updates a PR with a non-empty body appends one
\* more additional-updates section, so over repeated runs with the same
\* update set the body strictly grows, every earlier body being a prefix of
\* the later one.
C40_BodyGrowsByOneSection ==
    [][\A n \in 1..Len(prs) :
          /\ Len(prs') >= Len(prs)
          /\ IsPrefix(prs[n].body, prs'[n].body)
          /\ (runPc = "updateExistingPR" /\ runPc' = "done" /\ runError' = NoValue
                  /\ existingPR.number = n /\ prs[n].body # EmptyBody)
                => /\ OneSectionAppended(prs[n].body, prs'[n].body)
                   /\ Len(prs'[n].body) > Len(prs[n].body)
                   /\ prs'[n].body[Len(prs'[n].body)].updates = summary.updates
       ]_vars

\* the second run found the same update and appended its section to the
\* body the first run wrote
C40_Witness ==
    /\ runs = 2
    /\ runPc = "done"
    /\ Len(prs) = 1
    /\ Len(prs[1].body) = 2
    /\ prs[1].body[1].updates = prs[1].body[2].updates
    /\ emitted.pr_updated

====
